---- MODULE Spec2Model ----
(***************************************************************************)
(* The reindex orchestrator of the upgrade assistant: the saved-object     *)
(* store of reindex operations, the ReindexService state machine           *)
(* (createReindexOperation, processNextStep, pause, resume), the lease on  *)
(* each operation (acquireLock / releaseLock / updateReindexOp) and the ML *)
(* upgrade-mode counter.  Every await of the service is a step of the      *)
(* calling thread, so store calls and cluster calls of concurrent callers  *)
(* interleave as they do between Kibana processes.                         *)
(***************************************************************************)
EXTENDS Integers, Sequences, FiniteSets, TLC

\* ------------------------------------------------------------------ bounds
\* Concurrent callers of the service (worker loops and HTTP handlers of
\* several Kibana processes).
Threads == {"w1", "w2"}
\* Service calls (create, processNextStep, pause, resume) made in one run of
\* concurrent callers.
MaxCalls == 2
\* Service calls made in one run of a single caller.
MaxSeqCalls == 11
\* Service calls made in one run of concurrent callers over two ML operations.
MaxMlCalls == 2
\* Clock advances.
MaxTicks == 1
\* Handler calls and iterations of the worker's loop in one run of a process.
MaxWorkerCalls == 2
\* Calls to the worker's constructor, start, stop and forceRefresh in one run.
MaxApiCalls == 3
\* Store queries of the worker that fail in one run.
MaxFindFailures == 1
\* startUpdateOperationLoop invocations that are running at the same time.
MaxLoops == 2
\* Polls of a reindex task that is still running, in a run of the worker
\* that is followed to its end.
MaxPolls == 1
\* Destination indices left above the first free name by earlier reindexes.
MaxAbove == 2
\* Documents of the source index seen by the reindex task (task.status.total).
TaskTotal == 2

\* ------------------------------------------------------- program constants
\* LOCK_WINDOW = moment.duration(90, 'seconds'), in milliseconds.
LOCK_WINDOW == 90000
\* getNewIndexName(indexName, attempts = 100)
NewIndexAttempts == 100
\* moment().format() prints whole seconds: one unit of the printed timestamp.
MsPerSecond == 1000

\* The clock advances by the lease window, or by one millisecond less.
TickSteps == {LOCK_WINDOW - 1, LOCK_WINDOW}

\* Index names callers ask for; a cluster has some of them.
IndexNames == {"logs", ".ml-anomalies"}
Clusters == {{i} : i \in IndexNames}

\* JS null in a numeric / timestamp field and in a string field.
NULL == -1
NullStr == "null"

\* ReindexStatus and ReindexStep of common/types.
ReindexStatus == {"inProgress", "completed", "failed", "paused", "cancelled"}
ReindexStep ==
  <<"created", "mlUpgradeModeSet", "readonly", "newIndexCreated",
    "reindexStarted", "reindexCompleted", "aliasCreated", "mlUpgradeModeUnset">>

StepNum(s) == CHOOSE n \in 1..Len(ReindexStep) : ReindexStep[n] = s

\* No saved object (a find that returned nothing, an empty local variable).
NoOp == [id |-> 0]
\* No pending attribute patch.
NoUpd == [none |-> TRUE]
\* No ML saved object in hand.
NoMl == [none |-> TRUE]
NoErr == "none"

VARIABLES
  store,        \* reindex-operation saved objects by id (NoOp: absent)
  nextId,       \* next id client.create hands out
  mlDoc,        \* the upgrade-assistant-ml saved object
  now,          \* wall clock, milliseconds
  ticks,        \* clock advances so far
  budget,       \* service calls the run may still start
  indexExists,  \* cluster: the source indices it has
  writeBlock,   \* cluster: indices with index.blocks.write = true
  destIndices,  \* cluster: destination indices <<indexName, n>> that exist
  aliased,      \* cluster: source indices replaced by an alias to the new index
  tasks,        \* cluster: reindex tasks, sequence of [state, created]
  upgradeMode,  \* cluster: ML upgrade mode
  mlCalls,      \* cluster: ML endpoint calls, sequence of [enabled, by]
  mlIncs,       \* mlReindexCount increments made on behalf of each index
  mlDecs,       \* mlReindexCount decrements made on behalf of each index
  wk,           \* the ReindexWorker of the process (see NoWorker)
  th            \* per thread (caller): the locals of its running service call:
                \*   pc      position in the call ("idle": no call running,
                \*           "done": the call has ended and its caller has the outcome)
                \*   call    the running (or last) service call
                \*   target  indexName argument of create / pause / resume
                \*   arg     reindexOp passed to processNextStep
                \*   op      the local reindexOp / lockedReindexOp variable
                \*   upd     attrs of the pending updateReindexOp
                \*   exc     the exception in flight
                \*   mlCopy  mlDoc handed to the runWhileMlLocked callback
                \*   acqAt   time of the acquireLock that succeeded
                \*   trail   what the running (or last) call went through
                \*           (deleted: id of the record its createReindexOperation
                \*           deleted; counted: mlReindexCount as its increment or
                \*           decrement left it)
                \*   ret     outcome of the last service call

storeVars == <<store, nextId, mlDoc>>
clockVars == <<now, ticks, budget>>
clusterVars == <<indexExists, writeBlock, destIndices, aliased, tasks,
                 upgradeMode, mlCalls>>
ghostVars == <<mlIncs, mlDecs>>
vars == <<storeVars, clockVars, clusterVars, ghostVars, th, wk>>

\* Saved-object ids: the stored operations and one per call that may create.
OpIds == 1..(MaxCalls + MaxSeqCalls + MaxMlCalls + MaxWorkerCalls + 2)

NoTrail ==
  [acquired |-> FALSE, bodyFailed |-> FALSE, error |-> NoErr, failSaved |-> FALSE,
   cleanup |-> FALSE, released |-> FALSE, releaseRejected |-> FALSE,
   deleted |-> 0, counted |-> NULL]
NoRet == [kind |-> "none", op |-> NoOp, err |-> NoErr]

\* The loops of the worker: each startUpdateOperationLoop that is running is
\* at its `await Promise.all(...)` ("all") or at its `await this.refresh()`
\* ("refresh"); rejected and resolved count the processNextStep promises of
\* its current iteration that have settled.
Loops == 1..MaxLoops
NoLoop == [pc |-> "none", rejected |-> 0, resolved |-> 0]

\* The process before `new ReindexWorker(...)`: the static workerSingleton and
\* the fields of the instance as the class initialises them, then
\*   instances  ReindexWorker objects constructed
\*   ctorCalls  calls of the constructor
\*   threw      the last call of the constructor threw
\*   timers     pollForOperations callbacks scheduled with setTimeout
\*   polls      pollForOperations calls at their `await this.refresh()`
\*   forced     forceRefresh calls whose refresh awaits the store
\*   afterCreate  the last of them was called by a handler whose
\*              createReindexOperation had resolved
\*   loops      the startUpdateOperationLoop calls that are running
\*   calls      the loop whose Promise.all waits for the call of each thread
\*   stopped    stop() was called and start() was not called since
\*   api, faults  lifecycle calls and store failures the run may still have
\*   metered    every iteration of a loop counts against budget (else only
\*              the polls of a running task do)
NoWorker ==
  [workerSingleton |-> FALSE, continuePolling |-> FALSE,
   updateOperationLoopRunning |-> FALSE, inProgressOps |-> {},
   instances |-> 0, ctorCalls |-> 0, threw |-> FALSE, timers |-> 0, polls |-> 0, forced |-> 0,
   afterCreate |-> FALSE,
   loops |-> [l \in Loops |-> NoLoop], calls |-> [t \in Threads |-> 0],
   stopped |-> FALSE, api |-> 0, faults |-> 0, metered |-> TRUE]

\* --------------------------------------------------------------- helpers
\* { ...o, ...attrs }
Merge(o, attrs) ==
  [k \in DOMAIN o |-> IF k \in DOMAIN attrs THEN attrs[k] ELSE o[k]]

\* moment().format(): ISO 8601 without fractional seconds (the stored `locked`
\* is a count of whole seconds); moment(string): the instant it denotes, in ms.
Format(t) == t \div MsPerSecond
Parse(s) == s * MsPerSecond

Stored == {id \in OpIds : store[id] # NoOp}
\* client.find({ type: REINDEX_OP_TYPE, search: indexName, searchFields: ['indexName'] })
findReindexOperations(indexName) ==
  {store[id] : id \in {i \in Stored : store[i].indexName = indexName}}
\* client.find({ ..., search: 'inProgress', searchFields: ['status'] })
findAllInProgressOperations ==
  {store[id] : id \in {i \in Stored : store[i].status = "inProgress"}}

\* The ML-system indices.
MlIndexNames == {".ml-anomalies", ".ml-state"}
isMlIndex(indexName) == indexName \in MlIndexNames
\* Every index name of the model.
AllIndexNames == IndexNames \cup MlIndexNames

\* SavedObjectsClient.update(type, id, attributes, { version }): rejected when
\* the saved object is gone (404) or its version is not the caller's (409).
UpdateRejected(so, options) ==
  \/ store[so.id] = NoOp
  \/ store[so.id].version # options.version

\* An accepted update writes the attributes under the next version.
ClientUpdate(so, attributes) ==
  [attributes EXCEPT !.version = store[so.id].version + 1]

\* ------------------------------------------------------------- the lease
\* acquireLock without the check of the copy's lease.
LockedByOtherNever(reindexOp, t0) == FALSE

\* acquireLock: `now.subtract(LOCK_WINDOW) < lockedTime`, read off the caller's
\* copy of the saved object.
LockedByOther(reindexOp, t0) ==
  /\ reindexOp.locked # NULL
  /\ t0 - LOCK_WINDOW < Parse(reindexOp.locked)

\* The value of `now` when acquireLock formats it: moment's subtract() changes
\* the moment it is called on, and it is called whenever `locked` is set.
NowAfterCheck(reindexOp, t0) ==
  IF reindexOp.locked # NULL THEN t0 - LOCK_WINDOW ELSE t0

\* acquireLock without the version option: the update goes through whatever
\* the stored version is.
acquireLockOptionsUnversioned(reindexOp) ==
  [version |-> IF store[reindexOp.id] = NoOp THEN 0
               ELSE store[reindexOp.id].version]

\* acquireLock: the options of its client.update, { version: reindexOp.version }
acquireLockOptions(reindexOp) == [version |-> reindexOp.version]

\* acquireLock: the attributes it writes, { ...attributes, locked: now.format() }
acquireLock(reindexOp, t0) ==
  [reindexOp EXCEPT !.locked = Format(NowAfterCheck(reindexOp, t0))]

\* releaseLock without the version option.
releaseLockOptionsUnversioned(reindexOp) ==
  [version |-> IF store[reindexOp.id] = NoOp THEN 0
               ELSE store[reindexOp.id].version]

\* releaseLock: the options of its client.update, { version: reindexOp.version }
releaseLockOptions(reindexOp) == [version |-> reindexOp.version]

\* releaseLock that writes the attributes back as they are.
releaseLockKeepsLocked(reindexOp) == reindexOp

\* releaseLock: the attributes it writes, { ...attributes, locked: null }
releaseLock(reindexOp) == [reindexOp EXCEPT !.locked = NULL]

\* updateReindexOp without the version option.
updateReindexOpOptionsUnversioned(reindexOp) ==
  [version |-> IF store[reindexOp.id] = NoOp THEN 0
               ELSE store[reindexOp.id].version]

\* updateReindexOp that retries a conflict with the stored version: a stale
\* copy's version is replaced by the one now in the store.
updateReindexOpOptionsRefetched(reindexOp) ==
  IF store[reindexOp.id] # NoOp /\ store[reindexOp.id].version > reindexOp.version
  THEN [version |-> store[reindexOp.id].version]
  ELSE [version |-> reindexOp.version]

\* updateReindexOp: the options of its client.update, { version: reindexOp.version }
updateReindexOpOptions(reindexOp) == [version |-> reindexOp.version]

\* updateReindexOp: { ...attributes, locked: moment().format(), ...attrs }
updateReindexOp(reindexOp, attrs, t0) ==
  Merge([reindexOp EXCEPT !.locked = Format(t0)], attrs)

\* A getNewIndexName that takes the last name that does not exist.
getNewIndexNameLast(indexName, attempts) ==
  LET free == {i \in 0..(attempts - 1) : <<indexName, i>> \notin destIndices}
  IN  IF free = {} THEN NULL
      ELSE CHOOSE i \in free : \A j \in free : i >= j

\* getNewIndexName: the first `${indexName}-reindex-${i}` that does not exist,
\* NULL when all `attempts` exist.
getNewIndexName(indexName, attempts) ==
  LET free == {i \in 0..(attempts - 1) : <<indexName, i>> \notin destIndices}
  IN  IF free = {} THEN NULL
      ELSE CHOOSE i \in free : \A j \in free : i <= j

\* A create that stamps the lease on the new record.
NewReindexOpLocked(id, indexName, n) ==
  [id |-> id, version |-> 1,
   indexName |-> indexName,
   newIndexName |-> <<indexName, n>>,
   status |-> "inProgress",
   lastCompletedStep |-> "created",
   locked |-> Format(now),
   reindexTaskId |-> NULL,
   reindexTaskPercComplete |-> NULL,
   errorMessage |-> NullStr]

\* client.create(REINDEX_OP_TYPE, { ... }) of createReindexOperation
NewReindexOp(id, indexName, n) ==
  [id |-> id, version |-> 1,
   indexName |-> indexName,
   newIndexName |-> <<indexName, n>>,
   status |-> "inProgress",
   lastCompletedStep |-> "created",
   locked |-> NULL,
   reindexTaskId |-> NULL,
   reindexTaskPercComplete |-> NULL,
   errorMessage |-> NullStr]

\* The attrs each step writes.
MlUpgradeModeSetAttrs == [lastCompletedStep |-> "mlUpgradeModeSet"]
\* A setReadonly that records the step after its own.
ReadonlyAttrsSkips == [lastCompletedStep |-> "newIndexCreated"]

ReadonlyAttrs == [lastCompletedStep |-> "readonly"]
NewIndexCreatedAttrs == [lastCompletedStep |-> "newIndexCreated"]
\* A startReindexing that does not record the task it dispatched.
ReindexStartedAttrsNoTask(task) ==
  [lastCompletedStep |-> "reindexStarted", reindexTaskPercComplete |-> 0]

ReindexStartedAttrs(task) ==
  [lastCompletedStep |-> "reindexStarted", reindexTaskId |-> task,
   reindexTaskPercComplete |-> 0]
\* reindexTaskPercComplete, in percent (1 is 100).
PercOne == 100
PercComplete(created, total) == (created * PercOne) \div total
\* A progress update that also moves the operation on.
ReindexProgressAttrsCompletes(created, total) ==
  [reindexTaskPercComplete |-> PercComplete(created, total),
   lastCompletedStep |-> "reindexCompleted"]

\* updateReindexStatus, task not completed: the attrs it writes.
ReindexProgressAttrs(created, total) ==
  [reindexTaskPercComplete |-> PercComplete(created, total)]
ReindexCompletedAttrs ==
  [lastCompletedStep |-> "reindexCompleted", reindexTaskPercComplete |-> PercOne]

\* switchAlias that sets every operation completed, ML or not.
AliasCreatedAttrsAlwaysCompleted(indexName) ==
  [lastCompletedStep |-> "aliasCreated", status |-> "completed"]

AliasCreatedAttrs(indexName) ==
  [lastCompletedStep |-> "aliasCreated",
   status |-> IF isMlIndex(indexName) THEN "inProgress" ELSE "completed"]
\* An unsetMlUpgradeMode that leaves the status as it is.
MlUpgradeModeUnsetAttrsKeepsStatus ==
  [lastCompletedStep |-> "mlUpgradeModeUnset"]

MlUpgradeModeUnsetAttrs ==
  [lastCompletedStep |-> "mlUpgradeModeUnset", status |-> "completed"]

\* The catch that stores the status and drops the message.
FailedAttrsNoMessage(e) == [status |-> "failed", errorMessage |-> NullStr]
\* The catch that stores the message and leaves the status.
FailedAttrsKeepsStatus(e) == [errorMessage |-> e]
\* The catch that also moves the operation past its first step.
FailedAttrsAdvances(e) ==
  [status |-> "failed", errorMessage |-> e, lastCompletedStep |-> "mlUpgradeModeSet"]

\* The catch of processNextStep: status failed and the error message.
FailedAttrs(e) == [status |-> "failed", errorMessage |-> e]

\* --------------------------------------------------------- thread locals
IdleThread ==
  [pc |-> "idle", call |-> "none", target |-> "none", arg |-> NoOp, op |-> NoOp,
   upd |-> NoUpd, exc |-> NoErr, mlCopy |-> NoMl, acqAt |-> NULL,
   trail |-> NoTrail, ret |-> NoRet]

\* A service call begins.
Begin(c, indexName, reindexOp, at) ==
  [IdleThread EXCEPT !.pc = at, !.call = c, !.target = indexName,
                     !.arg = reindexOp, !.op = reindexOp]

\* The call of thread state s ends: the promise resolves (with saved object o)
\* or rejects (with error e).
Returned(s, kind, o, e) ==
  [s EXCEPT !.pc = "done", !.op = NoOp, !.upd = NoUpd, !.exc = NoErr,
            !.mlCopy = NoMl, !.acqAt = NULL,
            !.ret = [kind |-> kind, op |-> o, err |-> e]]

\* An acknowledged ML endpoint call of the past, issued on behalf of indexName
\* by the step that left mlReindexCount at `counted`.
MlCalled(enabled, indexName, counted) ==
  [enabled |-> enabled, by |-> indexName, acknowledged |-> TRUE, counted |-> counted]

\* --------------------------------------------------------------- Init
\* A run of concurrent callers starts from a stored state the service leaves
\* behind: an empty store, or the operation of the cluster's index after its first k steps
\* went through (k = 1: just created), with the cluster as those steps left
\* it.  The operation is unlocked, or it is held: a caller took its lease at
\* time 0 and its process died before it did anything else.
RECURSIVE AfterSteps(_, _)
AfterSteps(indexName, k) ==
  IF k = 1 THEN NewReindexOp(1, indexName, 0)
  ELSE LET before == AfterSteps(indexName, k - 1)
           attrs == CASE k = 2 -> MlUpgradeModeSetAttrs
                      [] k = 3 -> ReadonlyAttrs
                      [] k = 4 -> NewIndexCreatedAttrs
                      [] k = 5 -> ReindexStartedAttrs(1)
                      [] k = 6 -> ReindexCompletedAttrs
                      [] k = 7 -> AliasCreatedAttrs(indexName)
                      [] OTHER -> MlUpgradeModeUnsetAttrs
           \* acquireLock, updateReindexOp, releaseLock
       IN  [Merge(before, attrs) EXCEPT !.version = @ + 3]

\* The steps an operation of indexName goes through before it is completed.
LastStep(indexName) == IF isMlIndex(indexName) THEN 8 ELSE 7

InitAfter(indexName, k, held) ==
  LET ml == isMlIndex(indexName) /\ k >= 2
      mlOn == ml /\ k < 8
      reindexOp == AfterSteps(indexName, k)
  IN  /\ store = [id \in OpIds |->
                   IF id # 1 \/ k = 0 THEN NoOp
                   ELSE IF held
                   THEN [acquireLock(reindexOp, 0) EXCEPT !.version = @ + 1]
                   ELSE reindexOp]
      /\ nextId = IF k >= 1 THEN 2 ELSE 1
      /\ mlDoc = [version |-> IF ~ml THEN 1 ELSE IF mlOn THEN 6 ELSE 11,
                  mlReindexCount |-> IF mlOn THEN 1 ELSE 0,
                  locked |-> NULL]
      /\ writeBlock = IF k >= 3 /\ k < 7 THEN {indexName} ELSE {}
      /\ destIndices = IF k >= 4 THEN {<<indexName, 0>>} ELSE {}
      /\ aliased = IF k >= 7 THEN {indexName} ELSE {}
      /\ tasks = IF k < 5 THEN << >>
                 ELSE IF k = 5 THEN <<[state |-> "running", created |-> 0]>>
                 ELSE <<[state |-> "deleted", created |-> TaskTotal]>>
      /\ upgradeMode = mlOn
      /\ mlCalls =
           (IF ml THEN <<MlCalled(TRUE, indexName, 1)>> ELSE << >>)
           \o (IF ml /\ ~mlOn THEN <<MlCalled(FALSE, indexName, 0)>> ELSE << >>)
      /\ mlIncs = [i \in AllIndexNames |-> IF ml /\ i = indexName THEN 1 ELSE 0]
      /\ mlDecs = [i \in AllIndexNames |-> IF ml /\ ~mlOn /\ i = indexName THEN 1 ELSE 0]

Init ==
  /\ wk = NoWorker
  /\ now = 0
  /\ ticks = 0
  /\ budget = MaxCalls
  /\ indexExists \in Clusters
  /\ \E indexName \in indexExists, held \in BOOLEAN :
       \E k \in 0..(LastStep(indexName) - 1) :
         /\ held => k >= 1
         /\ InitAfter(indexName, k, held)
  /\ th = [t \in Threads |-> IdleThread]

\* ------------------------------------------------- createReindexOperation
\* The Boom error each rejection of the service is: Boom.notFound,
\* Boom.conflict (also the store's version conflict), Boom.badImplementation,
\* or a plain Error.
ErrorKind(e) ==
  CASE e = "NotFound" -> "notFound"
    [] e \in {"Conflict", "VersionConflict"} -> "conflict"
    [] e \in {"AlreadyInProgress", "MoreThanOne"} -> "badImplementation"
    [] OTHER -> "error"

\* `if (!indexExists)` on the awaited answer of indices.exists.
IndexExistsAwaited(indexName) == indexName \in indexExists

\* `if (!indexExists)` on the promise of indices.exists, which was not
\* awaited: an object, truthy whatever the cluster will answer.
IndexExistsPromise(indexName) == TRUE

\* The start of createReindexOperation: NotFound unless `exists`, then on to
\* the find.
CreateCall(t, indexName, exists) ==
  /\ th[t].pc = "idle"
  /\ budget > 0
  /\ budget' = budget - 1
  /\ th' = [th EXCEPT ![t] =
       IF exists
       THEN Begin("create", indexName, NoOp, "c_find")
       ELSE Returned(Begin("create", indexName, NoOp, "idle"),
                     "rejected", NoOp, "NotFound")]
  /\ UNCHANGED <<storeVars, now, ticks, clusterVars, ghostVars>>

\* createReindexOperation of the service of upgrade_assistant.
CreateReindexOperation(t, indexName) ==
  CreateCall(t, indexName, IndexExistsAwaited(indexName))

\* createReindexOperation of the older copy of the service (upgrade_checkup).
CreateReindexOperationCheckup(t, indexName) ==
  CreateCall(t, indexName, IndexExistsPromise(indexName))

\* findReindexOperations and the look at saved_objects[0].
CreateFind(t) ==
  /\ th[t].pc = "c_find"
  /\ LET existing == findReindexOperations(th[t].target)
     IN  \/ /\ existing = {}
            /\ th' = [th EXCEPT ![t].pc = "c_create"]
         \/ \E existingOp \in existing :
              th' = [th EXCEPT ![t] =
                IF existingOp.status = "failed"
                THEN [@ EXCEPT !.pc = "c_delete", !.op = existingOp]
                ELSE Returned(@, "rejected", NoOp, "AlreadyInProgress")]
  /\ UNCHANGED <<storeVars, clockVars, clusterVars, ghostVars>>

\* client.delete(REINDEX_OP_TYPE, existingOp.id)
CreateDelete(t) ==
  /\ th[t].pc = "c_delete"
  /\ LET id == th[t].op.id
     IN  IF store[id] = NoOp
         THEN /\ th' = [th EXCEPT ![t] = Returned(@, "rejected", NoOp, "NotFound")]
              /\ UNCHANGED store
         ELSE /\ store' = [store EXCEPT ![id] = NoOp]
              /\ th' = [th EXCEPT ![t] = [@ EXCEPT !.pc = "c_create", !.op = NoOp,
                                               !.trail.deleted = id]]
  /\ UNCHANGED <<nextId, mlDoc, clockVars, clusterVars, ghostVars>>

\* getNewIndexName and client.create
CreateReindexOp(t) ==
  /\ th[t].pc = "c_create"
  /\ LET n == getNewIndexName(th[t].target, NewIndexAttempts)
         created == NewReindexOp(nextId, th[t].target, n)
     IN  IF n = NULL
         THEN /\ th' = [th EXCEPT ![t] = Returned(@, "rejected", NoOp, "NoNewIndexName")]
              /\ UNCHANGED <<store, nextId>>
         ELSE /\ store' = [store EXCEPT ![nextId] = created]
              /\ nextId' = nextId + 1
              /\ th' = [th EXCEPT ![t] = Returned(@, "resolved", created, NoErr)]
  /\ UNCHANGED <<mlDoc, clockVars, clusterVars, ghostVars>>

\* ------------------------------------------------------- runWhileLocked
\* The worker hands processNextStep a saved object of its last
\* findAllInProgressOperations.
ProcessNextStep(t, reindexOp) ==
  /\ th[t].pc = "idle"
  /\ reindexOp \in findAllInProgressOperations
  /\ budget > 0
  /\ budget' = budget - 1
  /\ th' = [th EXCEPT ![t] = Begin("process", reindexOp.indexName, reindexOp, "acquire")]
  /\ UNCHANGED <<storeVars, now, ticks, clusterVars, ghostVars>>

\* pauseReindexOperation / resumeReindexOperation: findReindexOperation first.
PauseOrResume(t, c, indexName) ==
  /\ th[t].pc = "idle"
  /\ c \in {"pause", "resume"}
  /\ budget > 0
  /\ budget' = budget - 1
  /\ LET found == findReindexOperations(indexName)
     IN  th' = [th EXCEPT ![t] =
           IF found = {}
           THEN Returned(Begin(c, indexName, NoOp, "idle"), "rejected", NoOp, "NoOperation")
           ELSE IF Cardinality(found) > 1
           THEN Returned(Begin(c, indexName, NoOp, "idle"), "rejected", NoOp, "MoreThanOne")
           ELSE Begin(c, indexName, CHOOSE o \in found : TRUE, "acquire")]
  /\ UNCHANGED <<storeVars, now, ticks, clusterVars, ghostVars>>

\* acquireLock(reindexOp): conflict on a fresh lock of the copy, else the
\* versioned update that stamps `locked`.
AcquireLock(t) ==
  /\ th[t].pc = "acquire"
  /\ LET o == th[t].op
         locked == ClientUpdate(o, acquireLock(o, now))
     IN  IF LockedByOther(o, now)
         THEN /\ th' = [th EXCEPT ![t] = Returned(@, "rejected", NoOp, "Conflict")]
              /\ UNCHANGED store
         ELSE IF UpdateRejected(o, acquireLockOptions(o))
         THEN /\ th' = [th EXCEPT ![t] = Returned(@, "rejected", NoOp, "VersionConflict")]
              /\ UNCHANGED store
         ELSE /\ store' = [store EXCEPT ![o.id] = locked]
              /\ th' = [th EXCEPT ![t] =
                   [@ EXCEPT !.op = locked, !.acqAt = now, !.trail.acquired = TRUE,
                             !.pc = IF th[t].call = "process" THEN "step" ELSE "check"]]
  /\ UNCHANGED <<nextId, mlDoc, clockVars, clusterVars, ghostVars>>

\* ------------------------------------------- the steps of processNextStep
\* The step body threw e: on to the catch of processNextStep.
Throw(s, e) ==
  [s EXCEPT !.exc = e, !.upd = NoUpd, !.trail.bodyFailed = TRUE, !.trail.error = e,
            !.pc = "catch"]
\* The step body reached its actions.updateReindexOp(reindexOp, attrs).
ThenUpdate(s, attrs) == [s EXCEPT !.upd = attrs, !.pc = "update"]

AtStep(t, step) ==
  /\ th[t].pc = "step"
  /\ th[t].op.lastCompletedStep = step

\* Answers of a cluster call: acknowledged, not acknowledged, request error.
Answers == {"ok", "nack", "throw"}

\* created: setMlUpgradeMode, up to the first await.
SetMlUpgradeMode(t) ==
  /\ AtStep(t, "created")
  /\ th' = [th EXCEPT ![t] =
       IF isMlIndex(@.op.indexName)
       THEN [@ EXCEPT !.pc = "ml_count"]
       ELSE ThenUpdate(@, MlUpgradeModeSetAttrs)]
  /\ UNCHANGED <<storeVars, clockVars, clusterVars, ghostVars>>

\* mlUpgradeModeSet: setReadonly, the indices.putSettings call.
SetReadonly(t) ==
  /\ AtStep(t, "mlUpgradeModeSet")
  /\ \E r \in Answers :
       /\ writeBlock' = IF r = "ok" THEN writeBlock \cup {th[t].op.indexName}
                        ELSE writeBlock
       /\ th' = [th EXCEPT ![t] =
            CASE r = "ok" -> ThenUpdate(@, ReadonlyAttrs)
              [] r = "nack" -> Throw(@, "Index could not be set to readonly.")
              [] OTHER -> Throw(@, "ClusterError")]
  /\ UNCHANGED <<storeVars, clockVars, indexExists, destIndices, aliased, tasks,
                 upgradeMode, mlCalls, ghostVars>>

\* readonly: createNewIndex, getFlatSettings and the indices.create call
\* (which fails on an index that exists).
CreateNewIndex(t) ==
  /\ AtStep(t, "readonly")
  /\ \E r \in Answers :
       LET newIndexName == th[t].op.newIndexName
           res == IF newIndexName \in destIndices THEN "throw" ELSE r
       IN  /\ destIndices' = IF res = "ok" THEN destIndices \cup {newIndexName}
                             ELSE destIndices
           /\ th' = [th EXCEPT ![t] =
                CASE res = "ok" -> ThenUpdate(@, NewIndexCreatedAttrs)
                  [] res = "nack" -> Throw(@, "Index could not be created")
                  [] OTHER -> Throw(@, "ClusterError")]
  /\ UNCHANGED <<storeVars, clockVars, indexExists, writeBlock, aliased, tasks,
                 upgradeMode, mlCalls, ghostVars>>

\* newIndexCreated: startReindexing, getBooleanFieldPaths and the reindex call.
StartReindexing(t) ==
  /\ AtStep(t, "newIndexCreated")
  /\ \E r \in {"ok", "throw"} :
       /\ tasks' = IF r = "ok" THEN Append(tasks, [state |-> "running", created |-> 0])
                   ELSE tasks
       /\ th' = [th EXCEPT ![t] =
            IF r = "ok" THEN ThenUpdate(@, ReindexStartedAttrs(Len(tasks) + 1))
            ELSE Throw(@, "ClusterError")]
  /\ UNCHANGED <<storeVars, clockVars, indexExists, writeBlock, destIndices, aliased,
                 upgradeMode, mlCalls, ghostVars>>

\* An updateReindexStatus that takes every completed task for a whole copy.
TaskFellShortNever(task) == FALSE

\* An updateReindexStatus that lets a copy one document short pass.
TaskFellShortByTwo(task) == task.created + 1 < TaskTotal

\* updateReindexStatus: `task.status.created < task.status.total` of a
\* completed task.
TaskFellShort(task) == task.created < TaskTotal

\* Boom.badData(`Reindexing failed with failures like: ${failureExample}`)
TaskFailure == "Reindexing failed with failures"

\* reindexStarted: updateReindexStatus, tasks.get and the delete of the task.
UpdateReindexStatus(t) ==
  /\ AtStep(t, "reindexStarted")
  /\ LET taskId == th[t].op.reindexTaskId
         task == tasks[taskId]
     IN  \/ /\ task.state = "running"
            /\ tasks' = tasks
            /\ th' = [th EXCEPT ![t] =
                 ThenUpdate(@, ReindexProgressAttrs(task.created, TaskTotal))]
         \/ /\ task.state = "completed"
            /\ TaskFellShort(task)
            /\ tasks' = tasks
            /\ th' = [th EXCEPT ![t] = Throw(@, TaskFailure)]
         \/ /\ task.state = "completed"
            /\ ~TaskFellShort(task)
            /\ \E deleted \in BOOLEAN :
                 /\ tasks' = IF deleted THEN [tasks EXCEPT ![taskId].state = "deleted"]
                             ELSE tasks
                 /\ th' = [th EXCEPT ![t] =
                      IF deleted THEN ThenUpdate(@, ReindexCompletedAttrs)
                      ELSE Throw(@, "Could not delete reindexing task")]
         \/ /\ task.state = "deleted"
            /\ tasks' = tasks
            /\ th' = [th EXCEPT ![t] = Throw(@, "ClusterError")]
  /\ UNCHANGED <<storeVars, clockVars, indexExists, writeBlock, destIndices, aliased,
                 upgradeMode, mlCalls, ghostVars>>

\* The cluster's reindex task copies a document, or ends (with the documents
\* copied so far).
TaskRuns(k) ==
  /\ k \in DOMAIN tasks
  /\ tasks[k].state = "running"
  /\ \/ /\ tasks[k].created < TaskTotal
        /\ tasks' = [tasks EXCEPT ![k].created = @ + 1]
     \/ tasks' = [tasks EXCEPT ![k].state = "completed"]
  /\ UNCHANGED <<storeVars, clockVars, indexExists, writeBlock, destIndices, aliased,
                 upgradeMode, mlCalls, ghostVars, th>>

\* reindexCompleted: switchAlias, indices.getAlias and indices.updateAliases
\* (remove_index fails once the source index is gone).
SwitchAlias(t) ==
  /\ AtStep(t, "reindexCompleted")
  /\ \E r \in Answers :
       LET indexName == th[t].op.indexName
           res == IF indexName \in aliased THEN "throw" ELSE r
       IN  /\ aliased' = IF res = "ok" THEN aliased \cup {indexName} ELSE aliased
           /\ writeBlock' = IF res = "ok" THEN writeBlock \ {indexName} ELSE writeBlock
           /\ th' = [th EXCEPT ![t] =
                CASE res = "ok" -> ThenUpdate(@, AliasCreatedAttrs(indexName))
                  [] res = "nack" -> Throw(@, "Index aliases could not be created.")
                  [] OTHER -> Throw(@, "ClusterError")]
  /\ UNCHANGED <<storeVars, clockVars, indexExists, destIndices, tasks,
                 upgradeMode, mlCalls, ghostVars>>

\* aliasCreated: unsetMlUpgradeMode, up to the first await.
UnsetMlUpgradeMode(t) ==
  /\ AtStep(t, "aliasCreated")
  /\ th' = [th EXCEPT ![t] =
       IF isMlIndex(@.op.indexName)
       THEN [@ EXCEPT !.pc = "ml_count"]
       ELSE ThenUpdate(@, MlUpgradeModeUnsetAttrs)]
  /\ UNCHANGED <<storeVars, clockVars, clusterVars, ghostVars>>

\* ------------------------------------------------ the ML counter record
\* actions.incrementMlReindexes / decrementMlReindexes: under the lease of the
\* ML record, mlReindexCount + 1 (step created) or - 1 (step aliasCreated).
MlCountDelta(step) == IF step = "created" THEN 1 ELSE 0 - 1

MlCount(t) ==
  /\ th[t].pc = "ml_count"
  /\ LET indexName == th[t].op.indexName
         delta == MlCountDelta(th[t].op.lastCompletedStep)
     IN  IF LockedByOther(mlDoc, now)
         THEN /\ th' = [th EXCEPT ![t] = Throw(@, "Conflict")]
              /\ UNCHANGED <<mlDoc, ghostVars>>
         ELSE /\ mlDoc' = [mlDoc EXCEPT !.mlReindexCount = @ + delta,
                                        !.locked = NULL, !.version = @ + 3]
              /\ mlIncs' = IF delta = 1 THEN [mlIncs EXCEPT ![indexName] = @ + 1]
                           ELSE mlIncs
              /\ mlDecs' = IF delta = 1 THEN mlDecs
                           ELSE [mlDecs EXCEPT ![indexName] = @ + 1]
              /\ th' = [th EXCEPT ![t] =
                   [@ EXCEPT !.pc = "ml_lock",
                             !.trail.counted = mlDoc.mlReindexCount + delta]]
  /\ UNCHANGED <<store, nextId, clockVars, clusterVars>>

\* actions.runWhileMlLocked: the lease on the ML record is taken and the
\* record handed to the callback.
MlLock(t) ==
  /\ th[t].pc = "ml_lock"
  /\ IF LockedByOther(mlDoc, now)
     THEN /\ th' = [th EXCEPT ![t] = Throw(@, "Conflict")]
          /\ UNCHANGED mlDoc
     ELSE LET locked == [acquireLock(mlDoc, now) EXCEPT !.version = @ + 1]
          IN  /\ mlDoc' = locked
              /\ th' = [th EXCEPT ![t] = [@ EXCEPT !.mlCopy = locked, !.pc = "ml_call"]]
  /\ UNCHANGED <<store, nextId, clockVars, clusterVars, ghostVars>>

\* A setMlUpgradeMode that issues enabled=true only for the first ML operation
\* in flight.
CallsMlEndpointOnce(step, mlReindexCount) ==
  \/ step = "created" /\ mlReindexCount = 1
  \/ step # "created" /\ mlReindexCount = 0

\* The callback of runWhileMlLocked issues POST /_ml/set_upgrade_mode?enabled=false
\* only at mlReindexCount = 0 (unsetMlUpgradeMode); setMlUpgradeMode always
\* issues enabled=true, after validateNodesMinimumVersion(6, 7).
CallsMlEndpoint(step, mlReindexCount) ==
  step = "created" \/ mlReindexCount = 0

\* The callback, then the release of the ML record's lease.
MlCall(t) ==
  /\ th[t].pc = "ml_call"
  /\ LET step == th[t].op.lastCompletedStep
         enabled == (step = "created")
         issues == CallsMlEndpoint(step, th[t].mlCopy.mlReindexCount)
         released == mlDoc.version = th[t].mlCopy.version
         attrs == IF enabled THEN MlUpgradeModeSetAttrs ELSE MlUpgradeModeUnsetAttrs
     IN  /\ mlDoc' = IF released
                     THEN [mlDoc EXCEPT !.locked = NULL, !.version = @ + 1]
                     ELSE mlDoc
         /\ \/ /\ ~issues
               /\ UNCHANGED <<upgradeMode, mlCalls>>
               /\ th' = [th EXCEPT ![t] =
                    IF released THEN ThenUpdate([@ EXCEPT !.mlCopy = NoMl], attrs)
                    ELSE Throw([@ EXCEPT !.mlCopy = NoMl], "VersionConflict")]
            \/ /\ issues
               /\ enabled
               /\ UNCHANGED <<upgradeMode, mlCalls>>
               /\ th' = [th EXCEPT ![t] = Throw([@ EXCEPT !.mlCopy = NoMl], "OutdatedNodes")]
            \/ /\ issues
               /\ \E r \in Answers :
                    /\ upgradeMode' = IF r = "ok" THEN enabled ELSE upgradeMode
                    /\ mlCalls' = Append(mlCalls,
                         [enabled |-> enabled, by |-> th[t].op.indexName,
                          acknowledged |-> (r = "ok"),
                          counted |-> th[t].trail.counted])
                    /\ th' = [th EXCEPT ![t] =
                         CASE r = "nack" ->
                                Throw([@ EXCEPT !.mlCopy = NoMl],
                                      IF enabled THEN "Could not stop ML jobs"
                                      ELSE "Could not resume ML jobs")
                           [] r = "throw" -> Throw([@ EXCEPT !.mlCopy = NoMl], "ClusterError")
                           [] OTHER ->
                                IF released
                                THEN ThenUpdate([@ EXCEPT !.mlCopy = NoMl], attrs)
                                ELSE Throw([@ EXCEPT !.mlCopy = NoMl], "VersionConflict")]
  /\ UNCHANGED <<store, nextId, clockVars, indexExists, writeBlock, destIndices,
                 aliased, tasks, ghostVars>>

\* ----------------------------------------- update, catch, cleanup, release
\* A resume that asks for the status pause asks for.
RequiredStatusAlwaysInProgress(c) == "inProgress"

\* The status the callback of pause / resume insists on.
RequiredStatus(c) == IF c = "pause" THEN "inProgress" ELSE "paused"

\* A pause that also takes the operation back to its first step.
StatusAttrsResetsStep(c) ==
  IF c = "pause" THEN [status |-> "paused", lastCompletedStep |-> "created"]
  ELSE [status |-> "inProgress"]

\* The attrs pause / resume write.
StatusAttrs(c) == [status |-> IF c = "pause" THEN "paused" ELSE "inProgress"]

\* pause / resume: the callback of runWhileLocked checks the status.
CheckStatus(t) ==
  /\ th[t].pc = "check"
  /\ th' = [th EXCEPT ![t] =
       IF @.op.status = RequiredStatus(@.call)
       THEN ThenUpdate(@, StatusAttrs(@.call))
       ELSE [@ EXCEPT !.exc = "WrongStatus", !.pc = "release"]]
  /\ UNCHANGED <<storeVars, clockVars, clusterVars, ghostVars>>

\* actions.updateReindexOp(reindexOp, attrs) at the end of a step body.
UpdateReindexOp(t) ==
  /\ th[t].pc = "update"
  /\ LET o == th[t].op
         updated == ClientUpdate(o, updateReindexOp(o, th[t].upd, now))
     IN  IF UpdateRejected(o, updateReindexOpOptions(o))
         THEN /\ th' = [th EXCEPT ![t] =
                   IF @.call = "process" THEN Throw(@, "VersionConflict")
                   ELSE [@ EXCEPT !.exc = "VersionConflict", !.upd = NoUpd,
                                  !.pc = "release"]]
              /\ UNCHANGED store
         ELSE /\ store' = [store EXCEPT ![o.id] = updated]
              /\ th' = [th EXCEPT ![t] =
                   [@ EXCEPT !.op = updated, !.upd = NoUpd, !.pc = "release"]]
  /\ UNCHANGED <<nextId, mlDoc, clockVars, clusterVars, ghostVars>>

\* The catch of processNextStep: status failed and the error message.
CatchError(t) ==
  /\ th[t].pc = "catch"
  /\ LET o == th[t].op
         updated == ClientUpdate(o, updateReindexOp(o, FailedAttrs(th[t].exc), now))
     IN  IF UpdateRejected(o, updateReindexOpOptions(o))
         THEN /\ th' = [th EXCEPT ![t] =
                   [@ EXCEPT !.exc = "VersionConflict", !.pc = "release"]]
              /\ UNCHANGED store
         ELSE /\ store' = [store EXCEPT ![o.id] = updated]
              /\ th' = [th EXCEPT ![t] =
                   [@ EXCEPT !.op = updated, !.exc = NoErr,
                             !.trail.failSaved = TRUE, !.pc = "cleanup"]]
  /\ UNCHANGED <<nextId, mlDoc, clockVars, clusterVars, ghostVars>>

\* actions.cleanupChanges(indexName): the write block is taken back, best
\* effort (a failing request is logged and swallowed).
cleanupChanges(indexName, blocked, reached) ==
  IF reached THEN blocked \ {indexName} ELSE blocked

CleanupChanges(t) ==
  /\ th[t].pc = "cleanup"
  /\ \E reached \in BOOLEAN :
       writeBlock' = cleanupChanges(th[t].op.indexName, writeBlock, reached)
  /\ th' = [th EXCEPT ![t] = [@ EXCEPT !.trail.cleanup = TRUE, !.pc = "release"]]
  /\ UNCHANGED <<storeVars, clockVars, indexExists, destIndices, aliased, tasks,
                 upgradeMode, mlCalls, ghostVars>>

\* The finally of runWhileLocked: releaseLock(reindexOp), then the call ends
\* with the error in flight, if any.
ReleaseLock(t) ==
  /\ th[t].pc = "release"
  /\ LET o == th[t].op
         released == ClientUpdate(o, releaseLock(o))
     IN  IF UpdateRejected(o, releaseLockOptions(o))
         THEN /\ th' = [th EXCEPT ![t] =
                   Returned([@ EXCEPT !.trail.releaseRejected = TRUE],
                            "rejected", NoOp, "VersionConflict")]
              /\ UNCHANGED store
         ELSE /\ store' = [store EXCEPT ![o.id] = released]
              /\ th' = [th EXCEPT ![t] =
                   IF @.exc # NoErr
                   THEN Returned([@ EXCEPT !.trail.released = TRUE],
                                 "rejected", NoOp, @.exc)
                   ELSE Returned([@ EXCEPT !.trail.released = TRUE],
                                 "resolved", released, NoErr)]
  /\ UNCHANGED <<nextId, mlDoc, clockVars, clusterVars, ghostVars>>

\* ------------------------------------------------------- the environment
\* The caller of an ended call goes on.
Continue(t) ==
  /\ th[t].pc = "done"
  /\ th' = [th EXCEPT ![t] = IdleThread]
  /\ UNCHANGED <<storeVars, clockVars, clusterVars, ghostVars>>

\* Time passes.
Tick(d) ==
  /\ ticks < MaxTicks
  /\ ticks' = ticks + 1
  /\ now' = now + d
  /\ UNCHANGED <<storeVars, budget, clusterVars, ghostVars, th>>

\* A step of the service call of caller t, or the start of its next call.
Step(t) ==
  \/ \E indexName \in IndexNames : CreateReindexOperation(t, indexName)
  \/ CreateFind(t)
  \/ CreateDelete(t)
  \/ CreateReindexOp(t)
  \/ \E reindexOp \in findAllInProgressOperations : ProcessNextStep(t, reindexOp)
  \/ \E c \in {"pause", "resume"}, indexName \in IndexNames :
       PauseOrResume(t, c, indexName)
  \/ AcquireLock(t)
  \/ SetMlUpgradeMode(t)
  \/ SetReadonly(t)
  \/ CreateNewIndex(t)
  \/ StartReindexing(t)
  \/ UpdateReindexStatus(t)
  \/ SwitchAlias(t)
  \/ UnsetMlUpgradeMode(t)
  \/ MlCount(t)
  \/ MlLock(t)
  \/ MlCall(t)
  \/ CheckStatus(t)
  \/ UpdateReindexOp(t)
  \/ CatchError(t)
  \/ CleanupChanges(t)
  \/ ReleaseLock(t)
  \/ Continue(t)

Next ==
  /\ \/ \E t \in Threads : Step(t)
     \/ \E k \in DOMAIN tasks : TaskRuns(k)
     \/ \E d \in TickSteps : Tick(d)
  /\ UNCHANGED wk

Spec == Init /\ [][Next]_vars

\* One caller at a time, from an empty store: the whole life of an operation,
\* with its failures and retries.
InitSeq ==
  /\ wk = NoWorker
  /\ now = 0
  /\ ticks = 0
  /\ budget = MaxSeqCalls
  /\ indexExists \in Clusters
  /\ \E indexName \in indexExists : InitAfter(indexName, 0, FALSE)
  /\ th = [t \in Threads |-> IdleThread]

SeqCaller == CHOOSE t \in Threads : TRUE

NextSeq ==
  /\ \/ Step(SeqCaller)
     \/ \E k \in DOMAIN tasks : TaskRuns(k)
  /\ UNCHANGED wk

SpecSeq == InitSeq /\ [][NextSeq]_vars

\* Concurrent callers over two ML operations that overlap: the cluster has the
\* two ML indices, the operation of the first went through its first k1 steps
\* and then the operation of the second through its first k2 steps (neither
\* is completed, so mlReindexCount counts those past their first step).
FirstMlIndex == ".ml-anomalies"
SecondMlIndex == ".ml-state"

InitMl(k1, k2) ==
  LET k == (FirstMlIndex :> k1) @@ (SecondMlIndex :> k2)
      past(n) == {i \in MlIndexNames : k[i] >= n}
      counted == Cardinality(past(2))
      task(i) == [state |-> IF k[i] = 5 THEN "running" ELSE "deleted",
                  created |-> IF k[i] = 5 THEN 0 ELSE TaskTotal]
      called(i, n) == IF k[i] >= 2 THEN <<MlCalled(TRUE, i, n)>> ELSE << >>
      secondTask == IF k1 >= 5 THEN 2 ELSE 1
  IN  /\ store = [id \in OpIds |->
                   CASE id = 1 -> AfterSteps(FirstMlIndex, k1)
                     [] id = 2 ->
                          [AfterSteps(SecondMlIndex, k2) EXCEPT
                             !.id = 2,
                             !.reindexTaskId = IF k2 >= 5 THEN secondTask ELSE NULL]
                     [] OTHER -> NoOp]
      /\ nextId = 3
      \* incrementMlReindexes: 3 writes; runWhileMlLocked: 2
      /\ mlDoc = [version |-> 1 + 5 * counted, mlReindexCount |-> counted,
                  locked |-> NULL]
      /\ writeBlock = past(3) \ past(7)
      /\ destIndices = {<<i, 0>> : i \in past(4)}
      /\ aliased = past(7)
      /\ tasks = (IF k1 >= 5 THEN <<task(FirstMlIndex)>> ELSE << >>)
                  \o (IF k2 >= 5 THEN <<task(SecondMlIndex)>> ELSE << >>)
      /\ upgradeMode = (counted > 0)
      /\ mlCalls = called(FirstMlIndex, 1) \o called(SecondMlIndex, counted)
      /\ mlIncs = [i \in AllIndexNames |-> IF i \in past(2) THEN 1 ELSE 0]
      /\ mlDecs = [i \in AllIndexNames |-> 0]

InitTwoMl ==
  /\ wk = NoWorker
  /\ now = 0
  /\ ticks = 0
  /\ budget = MaxMlCalls
  /\ indexExists = MlIndexNames
  /\ \E k1, k2 \in 1..(LastStep(FirstMlIndex) - 1) : InitMl(k1, k2)
  /\ th = [t \in Threads |-> IdleThread]

NextMl ==
  /\ \/ \E t \in Threads : Step(t)
     \/ \E k \in DOMAIN tasks : TaskRuns(k)
  /\ UNCHANGED wk

SpecMl == InitTwoMl /\ [][NextMl]_vars

\* The two ML operations with callers that may stall: the first operation is
\* about to leave upgrade mode (aliasCreated), the second is at any step
\* before that, and time passes as in Spec, so that a lease can run out under
\* the caller that holds it.
InitMlLease ==
  /\ wk = NoWorker
  /\ now = 0
  /\ ticks = 0
  /\ budget = MaxMlCalls
  /\ indexExists = MlIndexNames
  /\ \E k2 \in 1..(LastStep(SecondMlIndex) - 2) :
       InitMl(LastStep(FirstMlIndex) - 1, k2)
  /\ th = [t \in Threads |-> IdleThread]

NextMlLease ==
  \/ NextMl
  \/ /\ \E d \in TickSteps : Tick(d)
     /\ UNCHANGED wk

SpecMlLease == InitMlLease /\ [][NextMlLease]_vars

\* Concurrent createReindexOperation calls to the older copy of the service,
\* over an empty store, a record just created, or a record that failed in its
\* first step (setReadonly not acknowledged).
FailedAtFirstStep(indexName) ==
  [Merge(AfterSteps(indexName, 1), FailedAttrs("Index could not be set to readonly."))
     EXCEPT !.version = @ + 3]

InitCheckup ==
  /\ wk = NoWorker
  /\ now = 0
  /\ ticks = 0
  /\ budget = MaxCalls
  /\ indexExists \in Clusters
  /\ \E indexName \in indexExists, was \in {"none", "created", "failed"} :
       /\ store = [id \in OpIds |->
                    IF id # 1 \/ was = "none" THEN NoOp
                    ELSE IF was = "created" THEN AfterSteps(indexName, 1)
                    ELSE FailedAtFirstStep(indexName)]
       /\ nextId = IF was = "none" THEN 1 ELSE 2
  /\ mlDoc = [version |-> 1, mlReindexCount |-> 0, locked |-> NULL]
  /\ writeBlock = {}
  /\ destIndices = {}
  /\ aliased = {}
  /\ tasks = << >>
  /\ upgradeMode = FALSE
  /\ mlCalls = << >>
  /\ mlIncs = [i \in AllIndexNames |-> 0]
  /\ mlDecs = [i \in AllIndexNames |-> 0]
  /\ th = [t \in Threads |-> IdleThread]

NextCheckup ==
  /\ \E t \in Threads :
       \/ \E indexName \in IndexNames : CreateReindexOperationCheckup(t, indexName)
       \/ CreateFind(t)
       \/ CreateDelete(t)
       \/ CreateReindexOp(t)
       \/ Continue(t)
  /\ UNCHANGED wk

SpecCheckup == InitCheckup /\ [][NextCheckup]_vars

\* createReindexOperation calls of one caller on a cluster where earlier
\* reindexes of the index left destination indices behind: the first `taken`
\* names exist and, past the first free one, up to MaxAbove more; the store is
\* empty or holds the record of an attempt that failed.
InitNewIndex ==
  /\ wk = NoWorker
  /\ now = 0
  /\ ticks = 0
  /\ budget = MaxCalls
  /\ indexExists \in Clusters
  /\ \E indexName \in indexExists, was \in {"none", "failed"},
        taken \in 0..NewIndexAttempts, above \in 0..MaxAbove :
       /\ store = [id \in OpIds |->
                    IF id # 1 \/ was = "none" THEN NoOp
                    ELSE FailedAtFirstStep(indexName)]
       /\ nextId = IF was = "none" THEN 1 ELSE 2
       /\ destIndices =
            {<<indexName, i>> : i \in
               {j \in 0..(NewIndexAttempts - 1) :
                  j < taken \/ (j > taken /\ j <= taken + above)}}
  /\ mlDoc = [version |-> 1, mlReindexCount |-> 0, locked |-> NULL]
  /\ writeBlock = {}
  /\ aliased = {}
  /\ tasks = << >>
  /\ upgradeMode = FALSE
  /\ mlCalls = << >>
  /\ mlIncs = [i \in AllIndexNames |-> 0]
  /\ mlDecs = [i \in AllIndexNames |-> 0]
  /\ th = [t \in Threads |-> IdleThread]

NextNewIndex ==
  /\ \/ \E indexName \in IndexNames : CreateReindexOperation(SeqCaller, indexName)
     \/ CreateFind(SeqCaller)
     \/ CreateDelete(SeqCaller)
     \/ CreateReindexOp(SeqCaller)
     \/ Continue(SeqCaller)
  /\ UNCHANGED wk

SpecNewIndex == InitNewIndex /\ [][NextNewIndex]_vars

\* The record unsetMlUpgradeMode's first test is written for ("in theory the
\* reindexOp should never get passed through this function in this case"): an
\* operation of an index that is not an ML index, past switchAlias and still
\* in progress, with the cluster as switchAlias left it.
NonMlAtAliasCreated(indexName, held) ==
  LET reindexOp == [AfterSteps(indexName, 7) EXCEPT !.status = "inProgress"]
  IN  /\ store = [id \in OpIds |->
                   IF id # 1 THEN NoOp
                   ELSE IF held
                   THEN [acquireLock(reindexOp, 0) EXCEPT !.version = @ + 1]
                   ELSE reindexOp]
      /\ nextId = 2
      /\ mlDoc = [version |-> 1, mlReindexCount |-> 0, locked |-> NULL]
      /\ writeBlock = {}
      /\ destIndices = {<<indexName, 0>>}
      /\ aliased = {indexName}
      /\ tasks = <<[state |-> "deleted", created |-> TaskTotal]>>
      /\ upgradeMode = FALSE
      /\ mlCalls = << >>
      /\ mlIncs = [i \in AllIndexNames |-> 0]
      /\ mlDecs = [i \in AllIndexNames |-> 0]

\* Concurrent callers as in Spec, over the stored states of Spec and that
\* record.
InitUnsetGuard ==
  \/ Init
  \/ /\ wk = NoWorker
     /\ now = 0
     /\ ticks = 0
     /\ budget = MaxCalls
     /\ \E indexName \in IndexNames \ MlIndexNames, held \in BOOLEAN :
          /\ indexExists = {indexName}
          /\ NonMlAtAliasCreated(indexName, held)
     /\ th = [t \in Threads |-> IdleThread]

SpecUnsetGuard == InitUnsetGuard /\ [][Next]_vars

\* ------------------------------------------------------- ReindexWorker
\* A constructor without its guard.
ConstructorThrowsNever(workerSingleton) == FALSE

\* constructor: `if (ReindexWorker.workerSingleton) throw new Error(...)`
ConstructorThrows(workerSingleton) == workerSingleton

\* includes(reindexOp): this.inProgressOps.map(o => o.id).includes(reindexOp.id)
includes(w, reindexOp) == reindexOp.id \in {o.id : o \in w.inProgressOps}

\* A lifecycle call leaves the worker as w; it touches nothing else.
Api(w) ==
  /\ wk.api > 0
  /\ wk' = [w EXCEPT !.api = @ - 1]
  /\ UNCHANGED <<storeVars, clockVars, clusterVars, ghostVars, th>>

\* new ReindexWorker(client, callWithInternalUser, log)
Construct ==
  /\ wk.api > 0
  /\ Api(IF ConstructorThrows(wk.workerSingleton)
         THEN [wk EXCEPT !.threw = TRUE, !.ctorCalls = @ + 1]
         ELSE [wk EXCEPT !.workerSingleton = TRUE, !.instances = @ + 1,
                         !.threw = FALSE, !.ctorCalls = @ + 1])

\* start(): continuePolling = true and pollForOperations() up to its await.
Start ==
  /\ wk.instances > 0
  /\ Api([wk EXCEPT !.continuePolling = TRUE, !.stopped = FALSE, !.polls = @ + 1])

\* stop()
Stop ==
  /\ wk.instances > 0
  /\ Api([wk EXCEPT !.updateOperationLoopRunning = FALSE,
                    !.continuePolling = FALSE, !.stopped = TRUE])

\* forceRefresh(): this.refresh() up to its await.
ForceRefresh ==
  /\ wk.instances > 0
  /\ Api([wk EXCEPT !.forced = @ + 1,
                    !.afterCreate =
                       \E t \in Threads : /\ th[t].pc = "done"
                                          /\ th[t].call = "create"
                                          /\ th[t].ret.kind = "resolved"])

\* A timer set by pollForOperations expires: pollForOperations() up to its
\* await.
TimerFires ==
  /\ wk.timers > 0
  /\ wk' = [wk EXCEPT !.timers = @ - 1, !.polls = @ + 1]
  /\ UNCHANGED <<storeVars, clockVars, clusterVars, ghostVars, th>>

\* What synchronous code of the worker works on: the worker, the calls of the
\* process and the calls the run may still start; ok is FALSE once the code
\* would run more at once than the bounds have room for.
Process == [wk |-> wk, th |-> th, budget |-> budget, ok |-> TRUE]

IdleThreads(calls) == {t \in Threads : calls[t].pc = "idle"}

\* What an iteration over ops counts against budget: one, or (not metered)
\* one for each poll of a task that is still running.
Cost(w, ops) ==
  IF w.metered THEN 1
  ELSE Cardinality({o \in ops : /\ o.lastCompletedStep = "reindexStarted"
                                /\ tasks[o.reindexTaskId].state = "running"})

\* startUpdateOperationLoop, loop l, from the test of its `while` to the next
\* await: the loop ends, or this.inProgressOps.map(this.processNextStep)
\* starts one call per record and the loop awaits them all.
Iterate(s, l) ==
  LET ops == s.wk.inProgressOps
      idle == IdleThreads(s.th)
  IN  IF ops = {}
      THEN [s EXCEPT !.wk.updateOperationLoopRunning = FALSE, !.wk.loops[l] = NoLoop]
      ELSE IF Cardinality(ops) > Cardinality(idle) \/ Cost(s.wk, ops) > s.budget
      THEN [s EXCEPT !.ok = FALSE]
      ELSE LET slot == CHOOSE f \in [ops -> idle] :
                         \A a, b \in ops : a # b => f[a] # f[b]
               taken == {slot[o] : o \in ops}
               opOf(t) == CHOOSE o \in ops : slot[o] = t
           IN  [ok |-> s.ok,
                budget |-> s.budget - Cost(s.wk, ops),
                wk |-> [s.wk EXCEPT
                          !.loops[l] = [NoLoop EXCEPT !.pc = "all"],
                          !.calls = [t \in Threads |->
                                       IF t \in taken THEN l ELSE s.wk.calls[t]]],
                th |-> [t \in Threads |->
                          IF t \in taken
                          THEN Begin("process", opOf(t).indexName, opOf(t), "acquire")
                          ELSE s.th[t]]]

\* startUpdateOperationLoop() up to its first await.
startUpdateOperationLoop(s) ==
  LET free == {l \in Loops : s.wk.loops[l].pc = "none"}
  IN  IF free = {} THEN [s EXCEPT !.ok = FALSE]
      ELSE Iterate([s EXCEPT !.wk.updateOperationLoopRunning = TRUE],
                   CHOOSE l \in free : \A m \in free : l <= m)

\* refresh() from the answer of findAllInProgressOperations on.
refresh(s) ==
  LET found == [s EXCEPT !.wk.inProgressOps = findAllInProgressOperations]
  IN  IF found.wk.updateOperationLoopRunning THEN found
      ELSE startUpdateOperationLoop(found)

\* The synchronous code ran and left s.
Ran(s) ==
  /\ s.ok
  /\ wk' = s.wk
  /\ th' = s.th
  /\ budget' = s.budget
  /\ UNCHANGED <<storeVars, now, ticks, clusterVars, ghostVars>>

\* findAllInProgressOperations rejected: so does the refresh that awaited it,
\* and the worker is left as w.
FindFailed(w) ==
  /\ wk.faults > 0
  /\ wk' = [w EXCEPT !.faults = @ - 1]
  /\ UNCHANGED <<storeVars, clockVars, clusterVars, ghostVars, th>>

\* pollForOperations from the end of its `await this.refresh()`: the timer
\* for the next cycle if continuePolling; nothing if the refresh rejected.
PollForOperations ==
  /\ wk.polls > 0
  /\ \/ LET s == refresh([Process EXCEPT !.wk.polls = @ - 1])
        IN  Ran(IF s.wk.continuePolling THEN [s EXCEPT !.wk.timers = @ + 1] ELSE s)
     \/ FindFailed([wk EXCEPT !.polls = @ - 1])

\* The refresh of a forceRefresh() gets its answer.
ForcedRefresh ==
  /\ wk.forced > 0
  /\ \/ Ran(refresh([Process EXCEPT !.wk.forced = @ - 1,
                                     !.wk.afterCreate = FALSE]))
     \/ FindFailed([wk EXCEPT !.forced = @ - 1, !.afterCreate = FALSE])

\* Loop l from the end of its `await this.refresh()`: the next iteration or
\* the end of the loop; if the refresh rejected, startUpdateOperationLoop
\* rejects where it stands and updateOperationLoopRunning keeps its value.
LoopRefresh(l) ==
  /\ wk.loops[l].pc = "refresh"
  /\ \/ Ran(Iterate(refresh(Process), l))
     \/ FindFailed([wk EXCEPT !.loops[l] = NoLoop])

\* A wrapper that lets the rejection through.
swallowExceptionsRethrows(ret) == ret.kind

\* swallowExceptions(func): the promise of the wrapper resolves, with the
\* result of func or, from its catch, with the reindexOp it was given.
swallowExceptions(ret) == "resolved"

\* The processNextStep of thread t has settled and so does its wrapper; with
\* the last of them Promise.all resolves and the loop calls this.refresh()
\* (a rejection would reject Promise.all and end the loop where it stands).
Swallow(t) ==
  /\ th[t].pc = "done"
  /\ wk.calls[t] # 0
  /\ LET l == wk.calls[t]
         last == \A u \in Threads \ {t} : wk.calls[u] # l
         threw == th[t].ret.kind = "rejected"
     IN  wk' = [wk EXCEPT
           !.calls[t] = 0,
           !.loops[l] =
              IF swallowExceptions(th[t].ret) = "rejected" THEN NoLoop
              ELSE [pc |-> IF last THEN "refresh" ELSE "all",
                    rejected |-> @.rejected + (IF threw THEN 1 ELSE 0),
                    resolved |-> @.resolved + (IF threw THEN 0 ELSE 1)]]
  /\ th' = [th EXCEPT ![t] = IdleThread]
  /\ UNCHANGED <<storeVars, clockVars, clusterVars, ghostVars>>

\* A step of a processNextStep the worker started.
WorkerCallStep(t) ==
  /\ \/ AcquireLock(t)
     \/ SetMlUpgradeMode(t)
     \/ SetReadonly(t)
     \/ CreateNewIndex(t)
     \/ StartReindexing(t)
     \/ UpdateReindexStatus(t)
     \/ SwitchAlias(t)
     \/ UnsetMlUpgradeMode(t)
     \/ MlCount(t)
     \/ MlLock(t)
     \/ MlCall(t)
     \/ UpdateReindexOp(t)
     \/ CatchError(t)
     \/ CleanupChanges(t)
     \/ ReleaseLock(t)
  /\ UNCHANGED wk

\* A step of a createReindexOperation of a request handler of the process.
HandlerStep(t) ==
  /\ \/ \E indexName \in IndexNames : CreateReindexOperation(t, indexName)
     \/ CreateFind(t)
     \/ CreateDelete(t)
     \/ CreateReindexOp(t)
     \/ wk.calls[t] = 0 /\ Continue(t)
  /\ UNCHANGED wk

\* The reindex task of the cluster.
ClusterRuns ==
  /\ \E k \in DOMAIN tasks : TaskRuns(k)
  /\ UNCHANGED wk

\* One process, its worker and one request handler at a time, over a cluster
\* that has both indices: the store is empty or holds one operation after its
\* first k steps, unlocked or held by a process that died.  The reindex task
\* of an operation at reindexStarted is running and copies nothing while the
\* run lasts.
WorkerSnapshots == {0, 1, 3, 5, 6}

InitWorker ==
  /\ wk = [NoWorker EXCEPT !.api = MaxApiCalls, !.faults = MaxFindFailures]
  /\ now = 0
  /\ ticks = 0
  /\ budget = MaxWorkerCalls
  /\ indexExists = IndexNames
  /\ \E indexName \in IndexNames, held \in BOOLEAN :
       \E k \in WorkerSnapshots :
         /\ held => k >= 1
         /\ InitAfter(indexName, k, held)
  /\ th = [t \in Threads |-> IdleThread]

NextWorker ==
  \/ Construct
  \/ Start
  \/ Stop
  \/ ForceRefresh
  \/ TimerFires
  \/ PollForOperations
  \/ ForcedRefresh
  \/ \E l \in Loops : LoopRefresh(l)
  \/ \E t \in Threads : Swallow(t)
  \/ \E t \in Threads : WorkerCallStep(t)
  \/ HandlerStep(SeqCaller)

SpecWorker == InitWorker /\ [][NextWorker]_vars

\* A started worker followed to the end of its operations: time passes until
\* the lease window is over, every await of the worker and of its calls gets
\* its answer, the reindex task runs on.
Elapse(d) ==
  /\ now < LOCK_WINDOW
  /\ now' = now + d
  /\ ticks' = ticks + 1
  /\ UNCHANGED <<storeVars, budget, clusterVars, ghostVars, th, wk>>

InitLive ==
  /\ wk = [NoWorker EXCEPT !.workerSingleton = TRUE, !.instances = 1,
                           !.continuePolling = TRUE, !.polls = 1,
                           !.faults = MaxFindFailures, !.metered = FALSE]
  /\ now = 0
  /\ ticks = 0
  /\ budget = MaxPolls
  /\ indexExists = IndexNames
  /\ \E indexName \in IndexNames, held \in BOOLEAN :
       \E k \in 1..(LastStep(indexName) - 1) : InitAfter(indexName, k, held)
  /\ th = [t \in Threads |-> IdleThread]

NextLive ==
  \/ TimerFires
  \/ PollForOperations
  \/ \E l \in Loops : LoopRefresh(l)
  \/ \E t \in Threads : Swallow(t)
  \/ \E t \in Threads : WorkerCallStep(t)
  \/ ClusterRuns
  \/ \E d \in TickSteps : Elapse(d)

SpecLive ==
  /\ InitLive
  /\ [][NextLive]_vars
  /\ WF_vars(TimerFires)
  /\ WF_vars(PollForOperations)
  /\ \A l \in Loops : WF_vars(LoopRefresh(l))
  /\ \A t \in Threads : WF_vars(Swallow(t))
  /\ \A t \in Threads : WF_vars(WorkerCallStep(t))
  /\ WF_vars(ClusterRuns)
  /\ WF_vars(\E d \in TickSteps : Elapse(d))

\* ------------------------------------------------------------------ claims
\* Stored operations of indexName that are inProgress or paused.
ActiveFor(indexName) ==
  {id \in Stored : /\ store[id].indexName = indexName
                   /\ store[id].status \in {"inProgress", "paused"}}

\* Caller u is between a successful acquireLock on record id and the end of
\* its call.
Holds(u, id) ==
  /\ th[u].trail.acquired
  /\ th[u].pc \notin {"idle", "done"}
  /\ th[u].op.id = id

\* Caller t is in processNextStep, between its successful acquireLock and the
\* end of the call.
InBody(t) ==
  /\ th[t].call = "process"
  /\ th[t].trail.acquired
  /\ th[t].pc \notin {"idle", "done"}

\* C1: in every reachable state, for every indexName, at most one stored
\* operation has status inProgress or paused, whatever the interleaving of
\* createReindexOperation, pause, resume and processNextStep calls.
C1_AtMostOneActivePerIndex ==
  \A indexName \in IndexNames : Cardinality(ActiveFor(indexName)) <= 1

\* C2: acquireLock does not succeed on a record whose lease another caller
\* acquired less than 90 s ago and still holds, also when that lease was
\* itself obtained by stealing an abandoned one.
C2_FreshLeaseNotStealable ==
  [][\A t \in Threads :
       (th[t].pc = "acquire" /\ th'[t].trail.acquired)
       => \A u \in Threads \ {t} :
            ~(Holds(u, th[t].op.id) /\ now - th[u].acqAt < LOCK_WINDOW)]_vars

\* Callers t and u are in processNextStep with the same copy of an unlocked
\* record.
SameCopy(t, u) ==
  /\ t # u
  /\ th[t].call = "process"
  /\ th[u].call = "process"
  /\ th[t].arg = th[u].arg
  /\ th[t].arg.locked = NULL

\* The outcome of a processNextStep whose locking update met a version
\* conflict: rejected, and the call went through nothing else.
LostTheRace(u) ==
  /\ th[u].ret = [kind |-> "rejected", op |-> NoOp, err |-> "VersionConflict"]
  /\ th[u].trail = NoTrail

\* C3: of two callers that run processNextStep with the same copy of an
\* unlocked in-progress record, at most one acquires the lease; the other one
\* ends rejected with a version conflict, having run no step body, and the
\* stored lastCompletedStep is at most one step past the copy's.
C3_OneOfTwoAcquires ==
  \A t, u \in Threads :
    SameCopy(t, u) =>
      /\ ~(th[t].trail.acquired /\ th[u].trail.acquired)
      /\ (th[t].trail.acquired /\ th[u].pc = "done") => LostTheRace(u)
      /\ store[th[t].arg.id] # NoOp =>
           StepNum(store[th[t].arg.id].lastCompletedStep)
             <= StepNum(th[t].arg.lastCompletedStep) + 1

\* One caller acquired the lease and advanced the record by a step, the other
\* one lost the race on the same copy.
C3_Witness ==
  \E t, u \in Threads :
    /\ SameCopy(t, u)
    /\ th[t].pc = "done"
    /\ th[t].ret.kind = "resolved"
    /\ th[u].pc = "done"
    /\ LostTheRace(u)
    /\ StepNum(store[th[t].arg.id].lastCompletedStep)
         = StepNum(th[t].arg.lastCompletedStep) + 1

\* C4: no two callers are at the same time between a successful acquireLock
\* and the end of processNextStep for the same record, as long as each of
\* them acquired the lease less than 90 s ago.
C4_StepBodiesSerialized ==
  \A t, u \in Threads :
    t # u =>
      ~(/\ InBody(t)
        /\ InBody(u)
        /\ th[t].op.id = th[u].op.id
        /\ now - th[t].acqAt < LOCK_WINDOW
        /\ now - th[u].acqAt < LOCK_WINDOW)

\* The last step of an operation of indexName.
FinalStep(indexName) == ReindexStep[LastStep(indexName)]

\* C5 (as stated): every stored operation with status completed has
\* lastCompletedStep mlUpgradeModeUnset and reindexTaskPercComplete 1.
C5_CompletedAtMlUpgradeModeUnset ==
  \A id \in Stored :
    store[id].status = "completed" =>
      /\ store[id].lastCompletedStep = "mlUpgradeModeUnset"
      /\ store[id].reindexTaskPercComplete = PercOne

\* C5 (amended): every stored operation with status completed has
\* reindexTaskPercComplete 1 and the last step of its kind: mlUpgradeModeUnset
\* for an ML index, aliasCreated for any other index.
C5_CompletedAtFinalStep ==
  \A id \in Stored :
    store[id].status = "completed" =>
      /\ store[id].lastCompletedStep = FinalStep(store[id].indexName)
      /\ store[id].reindexTaskPercComplete = PercOne

\* processNextStep has just completed the operation of a non-ML index.
C5_Witness ==
  \E t \in Threads :
    /\ th[t].pc = "done"
    /\ th[t].call = "process"
    /\ th[t].ret.kind = "resolved"
    /\ th[t].ret.op.status = "completed"
    /\ ~isMlIndex(th[t].ret.op.indexName)
    /\ store[th[t].ret.op.id] = th[t].ret.op

\* C6: a stored operation has status failed exactly when its errorMessage is
\* not empty.
C6_FailedIffErrorMessage ==
  \A id \in Stored :
    (store[id].status = "failed") <=> (store[id].errorMessage # NullStr)

\* A step body failed and the catch of processNextStep stored the failure.
C6_Witness ==
  \E t \in Threads :
    /\ th[t].pc = "done"
    /\ th[t].trail.failSaved
    /\ store[th[t].arg.id] # NoOp
    /\ store[th[t].arg.id].status = "failed"
    /\ store[th[t].arg.id].errorMessage = th[t].trail.error

\* Errors of a step body that come from the cluster: a request that throws,
\* or an answer that is not acknowledged.
ClusterFailures ==
  {"ClusterError", "Index could not be set to readonly.",
   "Index could not be created", "Index aliases could not be created.",
   "Could not stop ML jobs", "Could not resume ML jobs"}

\* processNextStep of caller t resolved to the failed record: status failed,
\* the error as errorMessage, lastCompletedStep as in the copy it was called
\* with, and cleanupChanges was called.
ResolvedFailed(t) ==
  /\ th[t].ret.kind = "resolved"
  /\ th[t].ret.op.status = "failed"
  /\ th[t].ret.op.errorMessage = th[t].trail.error
  /\ th[t].ret.op.lastCompletedStep = th[t].arg.lastCompletedStep
  /\ th[t].trail.cleanup

\* C7 (as stated): when a cluster request of the step body throws or is not
\* acknowledged, processNextStep resolves to the failed record and
\* cleanupChanges is called.
C7_StepFailureResolvesFailed ==
  \A t \in Threads :
    (/\ th[t].pc = "done"
     /\ th[t].call = "process"
     /\ th[t].trail.bodyFailed
     /\ th[t].trail.error \in ClusterFailures)
    => ResolvedFailed(t)

\* C7 (amended): when the step body fails, processNextStep resolves to the
\* failed record, with cleanupChanges called, if the store accepts the update
\* that records the failure and the release of the lease; if the store rejects
\* one of them, processNextStep rejects with the version conflict, and
\* cleanupChanges is not called unless the failure was recorded.
C7_StepFailureSavedOrRejected ==
  \A t \in Threads :
    (/\ th[t].pc = "done"
     /\ th[t].call = "process"
     /\ th[t].trail.bodyFailed)
    => IF th[t].trail.failSaved /\ th[t].trail.released
       THEN ResolvedFailed(t)
       ELSE /\ th[t].ret.kind = "rejected"
            /\ th[t].ret.err = "VersionConflict"
            /\ th[t].trail.cleanup = th[t].trail.failSaved

\* A cluster request of a step body failed and processNextStep resolved to
\* the failed record.
C7_Witness ==
  \E t \in Threads :
    /\ th[t].pc = "done"
    /\ th[t].call = "process"
    /\ th[t].trail.bodyFailed
    /\ th[t].trail.error \in ClusterFailures
    /\ ResolvedFailed(t)
    /\ store[th[t].arg.id] = th[t].ret.op

\* Caller t ends a processNextStep that had acquired the lease.
ExitsProcessNextStep(t) ==
  /\ th[t].pc # "done"
  /\ th'[t].pc = "done"
  /\ th'[t].call = "process"
  /\ th'[t].trail.acquired

\* C8 (as stated): when a processNextStep that acquired the lease ends, the
\* stored record's locked is empty, whether the step body succeeded, failed,
\* or the update recording the failure was rejected.
C8_LockClearedOnExit ==
  [][\A t \in Threads :
       (ExitsProcessNextStep(t) /\ store'[th[t].arg.id] # NoOp)
       => store'[th[t].arg.id].locked = NULL]_vars

\* C8 (amended): when a processNextStep that acquired the lease ends, either
\* its releaseLock was accepted and the stored record's locked is empty, or
\* the store rejected the releaseLock, processNextStep rejects with the
\* version conflict and the stored record stays as the other writer left it;
\* the latter is the case whenever the update recording the failure was
\* rejected.
C8_LockClearedUnlessReleaseRejected ==
  [][\A t \in Threads :
       ExitsProcessNextStep(t)
       => /\ IF th'[t].trail.released
             THEN /\ store'[th[t].arg.id].locked = NULL
                  /\ store'[th[t].arg.id].version = th[t].op.version + 1
             ELSE /\ th'[t].trail.releaseRejected
                  /\ store' = store
                  /\ th'[t].ret.kind = "rejected"
                  /\ th'[t].ret.err = "VersionConflict"
          /\ (th'[t].trail.bodyFailed /\ ~th'[t].trail.failSaved)
               => th'[t].trail.releaseRejected]_vars

\* A processNextStep whose step body failed has ended with the lease released.
C8_Witness ==
  \E t \in Threads :
    /\ th[t].pc = "done"
    /\ th[t].call = "process"
    /\ th[t].trail.acquired
    /\ th[t].trail.bodyFailed
    /\ th[t].trail.released
    /\ store[th[t].arg.id].locked = NULL

\* The copy's lease is fresh: locked is set and less than 90 s old.
FreshLease(reindexOp) ==
  /\ reindexOp.locked # NULL
  /\ now - Parse(reindexOp.locked) < LOCK_WINDOW

\* The copy is not the stored record any more.
StaleCopy(reindexOp) ==
  \/ store[reindexOp.id] = NoOp
  \/ store[reindexOp.id].version # reindexOp.version

\* C9: when the acquireLock of processNextStep meets a fresh lease on the copy
\* or a version conflict, and whenever it fails, processNextStep rejects with
\* that error, no step body runs and the store and the cluster are unchanged.
C9_FailedAcquireChangesNothing ==
  [][\A t \in Threads :
       (/\ th[t].pc = "acquire"
        /\ th[t].call = "process"
        /\ th'[t] # th[t]
        /\ \/ FreshLease(th[t].op)
           \/ StaleCopy(th[t].op)
           \/ th'[t].pc = "done")
       => /\ store' = store
          /\ clusterVars' = clusterVars
          /\ th'[t].pc = "done"
          /\ th'[t].ret.kind = "rejected"
          /\ th'[t].ret.op = NoOp
          /\ th'[t].ret.err = IF FreshLease(th[t].op) THEN "Conflict"
                              ELSE "VersionConflict"
          /\ th'[t].trail = NoTrail]_vars

\* processNextStep was rejected by a fresh lease of another caller and the
\* stored record is the copy it was called with.
C9_Witness ==
  \E t \in Threads :
    /\ th[t].pc = "done"
    /\ th[t].call = "process"
    /\ th[t].ret.kind = "rejected"
    /\ th[t].ret.err = "Conflict"
    /\ th[t].trail = NoTrail
    /\ store[th[t].arg.id] = th[t].arg
    /\ store[th[t].arg.id].status = "inProgress"

\* C10: once the operation of an ML index is completed, as many
\* mlReindexCount increments as decrements were made on its behalf, failures
\* and retries through createReindexOperation included.
C10_IncrementsEqualDecrements ==
  \A id \in Stored :
    (isMlIndex(store[id].indexName) /\ store[id].status = "completed")
    => mlIncs[store[id].indexName] = mlDecs[store[id].indexName]

\* Caller t, in the ML step `step` of its operation, runs the callback of
\* runWhileMlLocked in this step.
RunsMlCallback(t, step) ==
  /\ th[t].pc = "ml_call"
  /\ th[t].op.lastCompletedStep = step
  /\ th'[t] # th[t]

\* Caller t, in the ML step `step` of its operation, changes the counter in
\* this step.
CountsMl(t, step) ==
  /\ th[t].pc = "ml_count"
  /\ th[t].op.lastCompletedStep = step
  /\ th'[t].pc = "ml_lock"

\* C11 (as stated): of two ML operations that overlap, the one whose
\* created -> mlUpgradeModeSet step increments the counter to 2 does not call
\* the ML endpoint.
C11_SecondDoesNotCall ==
  [][\A t \in Threads :
       (RunsMlCallback(t, "created") /\ th[t].trail.counted = 2)
       => mlCalls' = mlCalls]_vars

\* The enabled=true call made on behalf of indexName by the step that left
\* the counter at n.
EnabledCall(indexName, n) ==
  [enabled |-> TRUE, by |-> indexName, acknowledged |-> TRUE, counted |-> n]

\* C11 (amended): the created -> mlUpgradeModeSet step of every ML operation
\* increments the counter by one and, unless the node version check fails,
\* calls the ML endpoint with enabled=true, whatever the counter is: of two
\* operations that overlap, neither of which failed before, the first
\* increments it to 1, the second to 2, and each issues the call before its
\* record moves to mlUpgradeModeSet.
C11_EveryMlOperationCalls ==
  /\ [][\A t \in Threads :
          /\ CountsMl(t, "created")
              => /\ mlDoc'.mlReindexCount = mlDoc.mlReindexCount + 1
                 /\ th'[t].trail.counted = mlDoc'.mlReindexCount
          /\ RunsMlCallback(t, "created")
              => \/ /\ th'[t].exc = "OutdatedNodes"
                    /\ mlCalls' = mlCalls
                 \/ /\ Len(mlCalls') = Len(mlCalls) + 1
                    /\ mlCalls'[Len(mlCalls')].enabled
                    /\ mlCalls'[Len(mlCalls')].by = th[t].op.indexName
                    /\ mlCalls'[Len(mlCalls')].counted = th[t].trail.counted]_vars
  /\ [](\A id \in Stored :
          (isMlIndex(store[id].indexName) /\ store[id].lastCompletedStep # "created")
          => \E i \in DOMAIN mlCalls :
               mlCalls[i] = EnabledCall(store[id].indexName, mlCalls[i].counted))

\* Both operations went through created -> mlUpgradeModeSet in this run: the
\* counter is 2, the first left it at 1, the second at 2, and each made its
\* enabled=true call.
C11_Witness ==
  \E t, u \in Threads :
    /\ th[t].pc = "done"
    /\ th[u].pc = "done"
    /\ th[t].ret.kind = "resolved"
    /\ th[u].ret.kind = "resolved"
    /\ th[t].arg # NoOp
    /\ th[u].arg # NoOp
    /\ th[t].arg.lastCompletedStep = "created"
    /\ th[u].arg.lastCompletedStep = "created"
    /\ th[t].trail.counted = 1
    /\ th[u].trail.counted = 2
    /\ mlDoc.mlReindexCount = 2
    /\ mlCalls = <<EnabledCall(th[t].arg.indexName, 1),
                   EnabledCall(th[u].arg.indexName, 2)>>
    /\ store[th[u].arg.id].lastCompletedStep = "mlUpgradeModeSet"

\* The enabled=false calls made so far.
DisablingCalls == {i \in DOMAIN mlCalls : ~mlCalls[i].enabled}

\* C12: in the aliasCreated -> mlUpgradeModeUnset step of an ML operation the
\* ML endpoint is called with enabled=false if and only if this operation's
\* decrement brought mlReindexCount to zero; of the two operations that
\* finish, in any interleaving, one issues the call and the other none.
C12_OnlyTheLastOneEnables ==
  /\ [][\A t \in Threads :
          RunsMlCallback(t, "aliasCreated")
          => ((mlCalls' # mlCalls) <=> (th[t].trail.counted = 0))]_vars
  /\ [](Cardinality(DisablingCalls) <= 1)

\* Caller t starts a createReindexOperation for an index the cluster does not
\* have.
CreatesForMissingIndex(t) ==
  /\ th[t].pc = "idle"
  /\ th'[t].pc # "idle"
  /\ th'[t].call = "create"
  /\ th'[t].target \notin indexExists

\* C13: createReindexOperation(indexName) fails with a NotFound error whenever
\* the cluster reports that indexName does not exist, and the store is left
\* as it was.
C13_NotFoundWhenIndexMissing ==
  [][\A t \in Threads :
       CreatesForMissingIndex(t)
       => /\ th'[t].pc = "done"
          /\ th'[t].ret.kind = "rejected"
          /\ ErrorKind(th'[t].ret.err) = "notFound"
          /\ store' = store]_vars

\* The only stored record of indexName has status failed.
OnlyFailed(indexName) ==
  /\ Cardinality(findReindexOperations(indexName)) = 1
  /\ \A o \in findReindexOperations(indexName) : o.status = "failed"

\* A record as createReindexOperation(indexName) returns it.
FreshRecord(o, indexName) ==
  /\ o.indexName = indexName
  /\ o.status = "inProgress"
  /\ o.lastCompletedStep = "created"
  /\ o.locked = NULL
  /\ o.reindexTaskId = NULL
  /\ o.errorMessage = NullStr

\* Caller t takes a step of its createReindexOperation from position pc.
CreateStepFrom(t, pc) ==
  /\ th[t].call = "create"
  /\ th[t].pc = pc
  /\ th'[t] # th[t]

\* C14: when the only record of indexName has status failed,
\* createReindexOperation(indexName) goes on to delete that record; the delete
\* removes it and nothing else; the call then stores and returns a new record
\* with status inProgress, lastCompletedStep created and empty locked,
\* reindexTaskId and errorMessage; the failed record is not in the store any
\* more once the call has ended.
C14_RetryDeletesFailedRecord ==
  /\ [][\A t \in Threads :
          /\ (CreateStepFrom(t, "c_find") /\ OnlyFailed(th[t].target))
               => /\ th'[t].pc = "c_delete"
                  /\ th'[t].op \in findReindexOperations(th[t].target)
                  /\ store' = store
          /\ (CreateStepFrom(t, "c_delete") /\ store[th[t].op.id] # NoOp)
               => /\ th'[t].pc = "c_create"
                  /\ store' = [store EXCEPT ![th[t].op.id] = NoOp]
          /\ (CreateStepFrom(t, "c_create") /\ th[t].trail.deleted # 0)
               => /\ th'[t].pc = "done"
                  /\ th'[t].ret.kind = "resolved"
                  /\ FreshRecord(th'[t].ret.op, th[t].target)
                  /\ th'[t].ret.op.id # th[t].trail.deleted
                  /\ store[th'[t].ret.op.id] = NoOp
                  /\ store' = [store EXCEPT ![th'[t].ret.op.id] = th'[t].ret.op]]_vars
  /\ [](\A t \in Threads :
          (th[t].call = "create" /\ th[t].trail.deleted # 0)
          => store[th[t].trail.deleted] = NoOp)

\* A createReindexOperation that found a failed record has ended: the failed
\* record is gone and the record it returned is the stored one.
C14_Witness ==
  \E t \in Threads :
    /\ th[t].pc = "done"
    /\ th[t].call = "create"
    /\ th[t].trail.deleted # 0
    /\ th[t].ret.kind = "resolved"
    /\ store[th[t].trail.deleted] = NoOp
    /\ store[th[t].ret.op.id] = th[t].ret.op

\* C15: when a record of indexName exists with a status other than failed,
\* createReindexOperation(indexName) fails with a Conflict error, deletes
\* nothing and creates nothing: the store is left as it was.
C15_ConflictWhenNotFailed ==
  [][\A t \in Threads :
       (/\ CreateStepFrom(t, "c_find")
        /\ \E o \in findReindexOperations(th[t].target) : o.status # "failed")
       => /\ th'[t].pc = "done"
          /\ th'[t].ret.kind = "rejected"
          /\ ErrorKind(th'[t].ret.err) = "conflict"
          /\ store' = store]_vars

\* Caller t's pause or resume found a record whose status is not the one the
\* call is for.
WrongStatus(t) ==
  \/ th[t].call = "pause" /\ th[t].arg.status # "inProgress"
  \/ th[t].call = "resume" /\ th[t].arg.status # "paused"

\* Every stored record keeps its status and lastCompletedStep in this step.
StatusAndStepUnchanged ==
  \A id \in Stored :
    /\ store'[id] # NoOp
    /\ store'[id].status = store[id].status
    /\ store'[id].lastCompletedStep = store[id].lastCompletedStep

\* C16: a pauseReindexOperation that succeeds found the record inProgress and
\* returns it paused; a resumeReindexOperation that succeeds found it paused
\* and returns it inProgress.  Called with no record for the index, or with a
\* record in any other status, each ends with an error, and none of its steps
\* changes the status or the lastCompletedStep of a stored record.
C16_PauseResumeRequireStatus ==
  /\ [](\A t \in Threads :
          (th[t].pc = "done" /\ th[t].call \in {"pause", "resume"})
          => /\ th[t].ret.kind = "resolved"
                => /\ th[t].arg # NoOp
                   /\ ~WrongStatus(t)
                   /\ th[t].ret.op.status =
                        (IF th[t].call = "pause" THEN "paused" ELSE "inProgress")
                   /\ th[t].ret.op.lastCompletedStep = th[t].arg.lastCompletedStep
             /\ (th[t].arg = NoOp \/ WrongStatus(t))
                => /\ th[t].ret.kind = "rejected"
                   /\ th[t].ret.err # NoErr)
  /\ [][\A t \in Threads :
          /\ (/\ th[t].pc = "idle"
               /\ th'[t].call \in {"pause", "resume"}
               /\ th'[t].pc = "done")
              => store' = store
          /\ (/\ th[t].call \in {"pause", "resume"}
               /\ th[t].pc \notin {"idle", "done"}
               /\ th'[t] # th[t]
               /\ WrongStatus(t))
              => StatusAndStepUnchanged]_vars

\* A pause went through and the record is stored paused; a second pause of
\* the paused record was turned down.
C16_Witness ==
  \E t, u \in Threads :
    /\ th[t].pc = "done"
    /\ th[t].call = "pause"
    /\ th[t].ret.kind = "resolved"
    /\ th[u].pc = "done"
    /\ th[u].call = "pause"
    /\ th[u].arg # NoOp
    /\ th[u].arg.status = "paused"
    /\ th[u].ret = [kind |-> "rejected", op |-> NoOp, err |-> "WrongStatus"]
    /\ store[th[t].arg.id].status = "paused"
    /\ store[th[t].arg.id].lastCompletedStep = th[t].arg.lastCompletedStep

\* Caller u's resume found the record as caller t's pause returned it.
ResumedAfterPause(t, u) ==
  /\ th[t].pc = "done"
  /\ th[t].call = "pause"
  /\ th[t].ret.kind = "resolved"
  /\ th[u].pc = "done"
  /\ th[u].call = "resume"
  /\ th[u].ret.kind = "resolved"
  /\ th[u].arg = th[t].ret.op

\* C17: a successful pause followed by a successful resume returns the record
\* to status inProgress with the lastCompletedStep, reindexTaskId and
\* newIndexName (and every other attribute but the lease) it had before the
\* pause, at whatever step the operation was.
C17_PauseResumeRoundTrip ==
  \A t, u \in Threads :
    ResumedAfterPause(t, u)
    => /\ th[t].arg.status = "inProgress"
       /\ th[u].ret.op.status = "inProgress"
       /\ th[u].ret.op.lastCompletedStep = th[t].arg.lastCompletedStep
       /\ th[u].ret.op.reindexTaskId = th[t].arg.reindexTaskId
       /\ th[u].ret.op.newIndexName = th[t].arg.newIndexName
       /\ th[u].ret.op = [th[t].arg EXCEPT !.version = th[u].ret.op.version,
                                           !.locked = NULL]

\* An operation whose reindex task had been started was paused and resumed,
\* and the stored record is the resumed one.
C17_Witness ==
  \E t, u \in Threads :
    /\ ResumedAfterPause(t, u)
    /\ th[t].arg.lastCompletedStep = "reindexStarted"
    /\ th[t].arg.reindexTaskId # NULL
    /\ store[th[u].arg.id] = th[u].ret.op

\* Caller t's resume writes its status update to record id in this step.
ResumeUpdates(t, id) ==
  /\ th[t].call = "resume"
  /\ th[t].pc = "update"
  /\ th[t].op.id = id
  /\ th'[t] # th[t]

\* C18: a stored record with status paused is not deleted, keeps its
\* lastCompletedStep, and keeps status paused in every step but the status
\* update of a resumeReindexOperation, which sets it inProgress: no
\* processNextStep changes it, whichever copy of the record it was called with.
C18_PausedUntilResumed ==
  [][\A id \in Stored :
       store[id].status = "paused"
       => /\ store'[id] # NoOp
          /\ store'[id].lastCompletedStep = store[id].lastCompletedStep
          /\ \/ store'[id].status = "paused"
             \/ /\ store'[id].status = "inProgress"
                /\ \E t \in Threads : ResumeUpdates(t, id)]_vars

\* A worker took the lease and ran its step body on a copy from before the
\* pause; the pause went through meanwhile, the worker's writes were turned
\* down and the record is stored paused at the step of the worker's copy.
C18_Witness ==
  \E t, u \in Threads :
    /\ th[t].pc = "done"
    /\ th[t].call = "pause"
    /\ th[t].ret.kind = "resolved"
    /\ th[u].pc = "done"
    /\ th[u].call = "process"
    /\ th[u].arg.id = th[t].arg.id
    /\ th[u].arg.status = "inProgress"
    /\ th[u].trail.acquired
    /\ th[u].ret.kind = "rejected"
    /\ store[th[u].arg.id].status = "paused"
    /\ store[th[u].arg.id].lastCompletedStep = th[u].arg.lastCompletedStep

\* Caller t's processNextStep was called with a record at reindexStarted
\* whose task is (still) running.
PollsRunningTask(t) ==
  /\ th[t].call = "process"
  /\ th[t].arg.lastCompletedStep = "reindexStarted"
  /\ tasks[th[t].arg.reindexTaskId].state = "running"

\* Record o is record before with nothing changed but the version, the lease
\* and reindexTaskPercComplete, which is c / TaskTotal.
OnlyProgressMoved(o, before, c) ==
  o = [before EXCEPT !.version = o.version, !.locked = NULL,
                     !.reindexTaskPercComplete = (c * PercOne) \div TaskTotal]

\* C19: processNextStep on a record at reindexStarted whose task reports
\* completed = false asks for one update, of reindexTaskPercComplete to
\* created / total, and touches neither the store nor the task in its poll;
\* the record it resolves to differs from the one it was called with in
\* nothing but the version, the lease and reindexTaskPercComplete, and the
\* stored record keeps its lastCompletedStep, reindexTaskId and newIndexName,
\* call after call.
C19_PollIsIdempotentInStep ==
  /\ [][\A t \in Threads :
          (/\ PollsRunningTask(t)
           /\ th[t].pc = "step"
           /\ th'[t] # th[t])
          => /\ th'[t].pc = "update"
             /\ th'[t].upd = [reindexTaskPercComplete |->
                   (tasks[th[t].arg.reindexTaskId].created * PercOne) \div TaskTotal]
             /\ store' = store
             /\ tasks' = tasks]_vars
  /\ [](\A t \in Threads :
          (PollsRunningTask(t) /\ th[t].pc = "done")
          => /\ th[t].ret.kind = "resolved"
                => \E c \in 0..tasks[th[t].arg.reindexTaskId].created :
                     OnlyProgressMoved(th[t].ret.op, th[t].arg, c)
             /\ store[th[t].arg.id] # NoOp
                => /\ store[th[t].arg.id].lastCompletedStep = "reindexStarted"
                   /\ store[th[t].arg.id].reindexTaskId = th[t].arg.reindexTaskId
                   /\ store[th[t].arg.id].newIndexName = th[t].arg.newIndexName)

\* Two calls in a row on a record at reindexStarted, the second on the record
\* the first returned; the task copied a document in between and is still
\* running: the record is stored at reindexStarted with the new percentage.
C19_Witness ==
  \E t, u \in Threads :
    /\ PollsRunningTask(t)
    /\ PollsRunningTask(u)
    /\ th[t].pc = "done"
    /\ th[u].pc = "done"
    /\ th[t].ret.kind = "resolved"
    /\ th[u].ret.kind = "resolved"
    /\ th[u].arg = th[t].ret.op
    /\ th[u].ret.op.reindexTaskPercComplete # th[t].ret.op.reindexTaskPercComplete
    /\ store[th[u].arg.id] = th[u].ret.op
    /\ th[u].ret.op.lastCompletedStep = "reindexStarted"

\* Caller t's processNextStep met a task that completed with fewer documents
\* created than the source index has.
MetShortTask(t) ==
  /\ th[t].pc = "done"
  /\ th[t].call = "process"
  /\ th[t].trail.error = TaskFailure

\* The record processNextStep of caller t resolved to is the failed one, not
\* advanced.
ResolvedFailedAtReindexStarted(t) ==
  /\ th[t].ret.kind = "resolved"
  /\ th[t].ret.op.status = "failed"
  /\ th[t].ret.op.errorMessage = TaskFailure
  /\ th[t].ret.op.lastCompletedStep = "reindexStarted"

\* The task of caller t's record is still there, completed and short.
TaskKept(t) ==
  /\ tasks[th[t].arg.reindexTaskId].state = "completed"
  /\ tasks[th[t].arg.reindexTaskId].created < TaskTotal

\* C20 (as stated): when the task reports completed = true with created <
\* total, processNextStep produces the record with status failed and the
\* failure as errorMessage, lastCompletedStep still reindexStarted, and the
\* task record is not deleted.
C20_ShortTaskResolvesFailed ==
  \A t \in Threads :
    MetShortTask(t) => (ResolvedFailedAtReindexStarted(t) /\ TaskKept(t))

\* C20 (amended): when the task reports completed = true with created < total,
\* updateReindexStatus throws the failure without deleting the task or writing
\* to the store; processNextStep resolves to the record with status failed,
\* the failure as errorMessage and lastCompletedStep reindexStarted if the
\* store accepts the update recording the failure and the release, and
\* rejects with the version conflict otherwise; either way the stored record
\* stays at reindexStarted and the task stays; a record stored failed keeps
\* its status, errorMessage and lastCompletedStep until a retry deletes it,
\* and no processNextStep starts on a copy with status failed.
C20_ShortTaskFailedOrRejected ==
  /\ [][\A t \in Threads :
          /\ (/\ th[t].pc = "step"
               /\ th[t].op.lastCompletedStep = "reindexStarted"
               /\ tasks[th[t].op.reindexTaskId].state = "completed"
               /\ tasks[th[t].op.reindexTaskId].created < TaskTotal
               /\ th'[t] # th[t])
              => /\ th'[t].pc = "catch"
                 /\ th'[t].exc = TaskFailure
                 /\ tasks' = tasks
                 /\ store' = store
          /\ (th[t].pc = "idle" /\ th'[t].pc # "idle" /\ th'[t].call = "process")
              => th'[t].arg.status = "inProgress"]_vars
  /\ [][\A id \in Stored :
          store[id].status = "failed"
          => \/ store'[id] = NoOp
             \/ /\ store'[id].status = "failed"
                /\ store'[id].errorMessage = store[id].errorMessage
                /\ store'[id].lastCompletedStep = store[id].lastCompletedStep]_vars
  /\ [](\A t \in Threads :
          MetShortTask(t)
          => /\ TaskKept(t)
             /\ th[t].arg.lastCompletedStep = "reindexStarted"
             /\ store[th[t].arg.id] # NoOp
                  => store[th[t].arg.id].lastCompletedStep = "reindexStarted"
             /\ IF th[t].trail.failSaved /\ th[t].trail.released
                THEN ResolvedFailedAtReindexStarted(t)
                ELSE /\ th[t].ret.kind = "rejected"
                     /\ ErrorKind(th[t].ret.err) = "conflict")

\* processNextStep met a short task and resolved to the failed record, which
\* is the stored one and is not among the operations the worker picks up.
C20_Witness ==
  \E t \in Threads :
    /\ MetShortTask(t)
    /\ ResolvedFailedAtReindexStarted(t)
    /\ TaskKept(t)
    /\ store[th[t].arg.id] = th[t].ret.op
    /\ th[t].ret.op \notin findAllInProgressOperations

\* The step after step s in the order of ReindexStep.
Successor(s) == ReindexStep[StepNum(s) + 1]

\* Caller t's processNextStep has resolved and its step body did not fail.
Succeeded(t) ==
  /\ th[t].pc = "done"
  /\ th[t].call = "process"
  /\ th[t].ret.kind = "resolved"
  /\ th[t].ret.op.status # "failed"

\* C21: every change of a stored record's lastCompletedStep is to the
\* immediate successor in the order created, mlUpgradeModeSet, readonly,
\* newIndexCreated, reindexStarted, reindexCompleted, aliasCreated,
\* mlUpgradeModeUnset; a successful processNextStep resolves to the record at
\* the successor of the step it was called with, or at the same step when
\* that step is reindexStarted, and the poll of that step leaves the step
\* alone only when the task is still running.
C21_OneStepAtATime ==
  /\ [][\A id \in OpIds :
          (/\ store[id] # NoOp
           /\ store'[id] # NoOp
           /\ store'[id].lastCompletedStep # store[id].lastCompletedStep)
          => /\ StepNum(store[id].lastCompletedStep) < Len(ReindexStep)
             /\ store'[id].lastCompletedStep = Successor(store[id].lastCompletedStep)]_vars
  /\ [][\A t \in Threads :
          (/\ AtStep(t, "reindexStarted")
           /\ th'[t].pc = "update"
           /\ "lastCompletedStep" \notin DOMAIN th'[t].upd)
          => tasks[th[t].op.reindexTaskId].state = "running"]_vars
  /\ [](\A t \in Threads :
          Succeeded(t)
          => \/ /\ StepNum(th[t].arg.lastCompletedStep) < Len(ReindexStep)
                /\ th[t].ret.op.lastCompletedStep = Successor(th[t].arg.lastCompletedStep)
             \/ /\ th[t].arg.lastCompletedStep = "reindexStarted"
                /\ th[t].ret.op.lastCompletedStep = "reindexStarted")

\* Two successful calls in a row, the second on the record the first
\* returned: the stored record is two steps past the step of the first call.
C21_Witness ==
  \E t, u \in Threads :
    /\ Succeeded(t)
    /\ Succeeded(u)
    /\ th[u].arg = th[t].ret.op
    /\ th[t].ret.op.lastCompletedStep = Successor(th[t].arg.lastCompletedStep)
    /\ th[u].ret.op.lastCompletedStep = Successor(th[u].arg.lastCompletedStep)
    /\ store[th[u].arg.id] = th[u].ret.op

\* The record has a reindex task id.
HasTaskId(o) == o.reindexTaskId # NULL

\* C22 (as stated): in every reachable state a record's reindexTaskId is
\* non-empty if and only if its lastCompletedStep is at or after
\* reindexStarted and its status is not completed.
C22_TaskIdIffStartedAndNotCompleted ==
  \A id \in Stored :
    HasTaskId(store[id])
    <=> /\ StepNum(store[id].lastCompletedStep) >= StepNum("reindexStarted")
        /\ store[id].status # "completed"

\* C22 (amended): in every reachable state a record's reindexTaskId is
\* non-empty if and only if its lastCompletedStep is at or after
\* reindexStarted, whatever its status: the id is that of the task
\* startReindexing dispatched and no later step clears it.
C22_TaskIdIffStarted ==
  \A id \in Stored :
    /\ HasTaskId(store[id])
        <=> StepNum(store[id].lastCompletedStep) >= StepNum("reindexStarted")
    /\ HasTaskId(store[id]) => store[id].reindexTaskId \in DOMAIN tasks

\* A processNextStep of this run completed a record, and the stored record
\* still names its task, which is deleted.
C22_Witness ==
  \E t \in Threads :
    /\ Succeeded(t)
    /\ th[t].arg.status = "inProgress"
    /\ th[t].ret.op.status = "completed"
    /\ store[th[t].arg.id] = th[t].ret.op
    /\ HasTaskId(store[th[t].arg.id])
    /\ tasks[store[th[t].arg.id].reindexTaskId].state = "deleted"

\* The wrapper of thread t's processNextStep settles in this step.
Settles(t) ==
  /\ th[t].pc = "done"
  /\ wk.calls[t] # 0
  /\ wk'.calls[t] = 0

\* Loop l gets the answer of the store to the refresh that ends an iteration.
Refreshes(l) ==
  /\ wk.loops[l].pc = "refresh"
  /\ wk'.loops[l].pc # "refresh"
  /\ wk'.faults = wk.faults

\* C23: an exception of processNextStep for one record is swallowed by the
\* worker: the wrapper settles without touching the loop's other calls, the
\* loop waits on until every call of the iteration has settled and then asks
\* for its refresh; the refresh that answers replaces the set with the
\* in-progress records of the store and the loop goes on with them (or ends
\* when there are none).
C23_ExceptionsAreSwallowed ==
  /\ [][\A t \in Threads :
          (Settles(t) /\ th[t].ret.kind = "rejected")
          => LET l == wk.calls[t]
                 others == {u \in Threads \ {t} : wk.calls[u] = l}
             IN  /\ \A u \in Threads \ {t} :
                      th'[u] = th[u] /\ wk'.calls[u] = wk.calls[u]
                 /\ wk'.loops[l].pc = IF others = {} THEN "refresh" ELSE "all"
                 /\ wk'.loops[l].rejected = wk.loops[l].rejected + 1
                 /\ wk'.updateOperationLoopRunning = wk.updateOperationLoopRunning]_vars
  /\ [][\A l \in Loops :
          (Refreshes(l) /\ wk.loops[l].rejected > 0)
          => /\ wk'.inProgressOps = findAllInProgressOperations
             /\ wk'.loops[l].pc =
                  IF findAllInProgressOperations = {} THEN "none" ELSE "all"]_vars
  /\ [](\A l \in Loops :
          (wk.loops[l].pc = "all") <=> (\E t \in Threads : wk.calls[t] = l))

\* An iteration over two records: the call for one was rejected, the call for
\* the other resolved, and the loop is at its refresh.
C23_Witness ==
  \E l \in Loops :
    /\ wk.loops[l].pc = "refresh"
    /\ wk.loops[l].rejected = 1
    /\ wk.loops[l].resolved = 1

\* C24: an error of the worker's loops (the store query of a refresh failing)
\* is swallowed: a started worker always has its next poll cycle scheduled or
\* running, and a worker whose inner loop counts as running has a loop that
\* runs.
C24_LoopsSurviveStoreErrors ==
  /\ wk.continuePolling => wk.timers + wk.polls > 0
  /\ wk.updateOperationLoopRunning => \E l \in Loops : wk.loops[l].pc # "none"

\* C25: once stop() was called (and until start() is called), no poll cycle
\* begins, not even from a timer that was scheduled before; stop() itself
\* leaves the calls in flight alone.
C25_NoPollCycleAfterStop ==
  /\ [][(wk.stopped /\ wk'.stopped) => wk'.polls <= wk.polls]_vars
  /\ [][(~wk.stopped /\ wk'.stopped) => th' = th]_vars

\* C26: once stop() was called (and until start() is called), the worker
\* invokes processNextStep on no record.
C26_NoProcessingAfterStop ==
  [][(wk.stopped /\ wk'.stopped)
     => \A t \in Threads :
          ~(th[t].pc = "idle" /\ th'[t].pc = "acquire" /\ th'[t].call = "process")]_vars

\* A createReindexOperation of the process has resolved with a record that is
\* stored as it was created.
Created(t) ==
  /\ th[t].pc = "done"
  /\ th[t].call = "create"
  /\ th[t].ret.kind = "resolved"
  /\ store[th[t].ret.op.id] = th[t].ret.op

\* The refresh of the one forceRefresh() pending, called after the creation,
\* completes in this step.
ForcedRefreshCompletes ==
  /\ wk.afterCreate
  /\ wk.forced = 1
  /\ wk'.forced = 0
  /\ wk'.faults = wk.faults

\* C29: when the refresh of a forceRefresh() that follows the creation of an
\* operation completes, the worker's set includes the new record and, if no
\* inner loop was running, one is running now.
C29_ForceRefreshStartsTheLoop ==
  [][\A t \in Threads :
       (Created(t) /\ ForcedRefreshCompletes)
       => /\ includes(wk', th[t].ret.op)
          /\ (\A l \in Loops : wk.loops[l].pc = "none")
             => \E l \in Loops : wk'.loops[l].pc = "all"]_vars

\* C30: a call of the constructor when a ReindexWorker was constructed before
\* throws and constructs nothing; there is at most one instance, and it is
\* the workerSingleton.
C30_SingleWorker ==
  /\ [][(wk'.ctorCalls # wk.ctorCalls /\ wk.workerSingleton)
        => wk'.threw /\ wk'.instances = wk.instances]_vars
  /\ [](wk.instances <= 1)
  /\ [](wk.workerSingleton <=> wk.instances = 1)

\* The constructor was called a second time and threw.
C30_Witness ==
  /\ wk.ctorCalls >= 2
  /\ wk.threw
  /\ wk.instances = 1

\* The record a run of the worker starts with (the id of InitAfter's record).
SnapshotId == 1

\* The record is in progress and carries a lease that no call of a running
\* worker holds: the process that took it died.
Abandoned(id) ==
  /\ store[id] # NoOp
  /\ store[id].status = "inProgress"
  /\ store[id].locked # NULL
  /\ \A t \in Threads : ~Holds(t, id)

\* A processNextStep of the running worker has the lease on the record and
\* works on it from the step the store has.
TakenOver(id) ==
  \E t \in Threads :
    /\ Holds(t, id)
    /\ th[t].call = "process"
    /\ th[t].arg.lastCompletedStep = store[id].lastCompletedStep

\* C27: a lease left on an in-progress record by a worker that crashed does
\* not block the record for good: with time passing, a started worker
\* eventually acquires the lease and goes on from the stored
\* lastCompletedStep.
C27_AbandonedLeaseIsTakenOver ==
  Abandoned(SnapshotId) ~> TakenOver(SnapshotId)

\* The record is in progress.
InProgress(id) ==
  /\ store[id] # NoOp
  /\ store[id].status = "inProgress"

\* The record has come to its end.
Settled(id) ==
  /\ store[id] # NoOp
  /\ store[id].status \in {"completed", "failed"}

\* C28: with a started worker, calls that return and a reindex task that
\* ends, a record that is in progress eventually is completed or failed, and
\* once no record is in progress the worker's loop comes to its end.
C28_NoJobIsDropped ==
  /\ InProgress(SnapshotId) ~> Settled(SnapshotId)
  /\ (findAllInProgressOperations = {}) ~> (\A l \in Loops : wk.loops[l].pc = "none")

\* Every one of the `attempts` names of the index exists.
AllNamesTaken(indexName) ==
  \A i \in 0..(NewIndexAttempts - 1) : <<indexName, i>> \in destIndices

\* C31: createReindexOperation names the destination index
\* {indexName}-reindex-{n} with n the smallest of 0..99 whose index does not
\* exist, and stores the record under that name; when all 100 names exist the
\* call is rejected with an error and the store is left as it is.
C31_SmallestFreeName ==
  [][\A t \in Threads :
       (th[t].pc = "c_create" /\ th'[t].pc = "done")
       => IF AllNamesTaken(th[t].target)
          THEN /\ th'[t].ret.kind = "rejected"
               /\ th'[t].ret.err = "NoNewIndexName"
               /\ store' = store
          ELSE LET created == th'[t].ret.op
                   n == created.newIndexName[2]
               IN  /\ th'[t].ret.kind = "resolved"
                   /\ store[created.id] = NoOp
                   /\ store' = [store EXCEPT ![created.id] = created]
                   /\ created.newIndexName[1] = th[t].target
                   /\ n \in 0..(NewIndexAttempts - 1)
                   /\ created.newIndexName \notin destIndices
                   /\ \A i \in 0..(n - 1) : <<th[t].target, i>> \in destIndices]_vars

\* A record was created under a name past the first, with a later name taken:
\* the first free name, not the last nor one past all that exist.
C31_Witness ==
  \E id \in Stored :
    /\ store[id].status = "inProgress"
    /\ store[id].newIndexName[2] >= 1
    /\ <<store[id].indexName, store[id].newIndexName[2] + 1>> \in destIndices

\* The request of thread t's cleanupChanges fails in this step: the write
\* block it was to take back stays.
CleanupFails(t) ==
  /\ th[t].pc = "cleanup"
  /\ th'[t].pc # "cleanup"
  /\ th[t].op.indexName \in writeBlock
  /\ writeBlock' = writeBlock

\* The processNextStep of thread t ends in this step, after its catch stored
\* the failure and ran a cleanupChanges that failed (the write block is still
\* there).
EndsAfterCleanup(t) ==
  /\ th[t].pc = "release"
  /\ th[t].call = "process"
  /\ th[t].trail.cleanup
  /\ th[t].op.indexName \in writeBlock
  /\ th'[t].pc = "done"

C33_MlCountNonNegative ==
  mlDoc.mlReindexCount \in Nat

\* The acquireLock of thread t is accepted by the store in this step.
Acquires(t) ==
  /\ th[t].pc = "acquire"
  /\ ~th[t].trail.acquired
  /\ th'[t].trail.acquired

\* C34: every acquireLock that succeeds, the takeover of an expired lease
\* included, stores the time of the acquisition as `locked` (as printed, in
\* whole seconds), not an earlier time.
C34_LockedIsTimeOfAcquisition ==
  [][\A t \in Threads :
       Acquires(t) => store'[th[t].op.id].locked = Format(now)]_vars

\* The errors setMlUpgradeMode throws from its callback: nodes below 6.7, the
\* ML endpoint not acknowledging, the request failing.
MlSetFailures == {"OutdatedNodes", "Could not stop ML jobs", "ClusterError"}

\* Thread t runs processNextStep on an ML record at step created.
SetsMlUpgradeMode(t) ==
  /\ th[t].call = "process"
  /\ th[t].arg # NoOp
  /\ th[t].arg.lastCompletedStep = "created"
  /\ isMlIndex(th[t].arg.indexName)

\* Such a call, whose callback threw, ends in this step.
EndsAfterMlSetFailure(t) ==
  /\ SetsMlUpgradeMode(t)
  /\ th[t].trail.error \in MlSetFailures
  /\ th[t].pc # "done"
  /\ th'[t].pc = "done"

\* The write block is put on an ML index only after an increment of
\* mlReindexCount and an acknowledged enabled=true call (which follows the
\* check of the nodes) were made for the index, and a processNextStep at step
\* created never puts it on.
BlockedAfterUpgradeMode ==
  /\ [][\A i \in MlIndexNames :
          (i \notin writeBlock /\ i \in writeBlock')
          => /\ mlIncs[i] >= 1
             /\ \E n \in DOMAIN mlCalls :
                  /\ mlCalls[n].enabled
                  /\ mlCalls[n].acknowledged
                  /\ mlCalls[n].by = i]_vars
  /\ [][\A t \in Threads :
          (SetsMlUpgradeMode(t) /\ th'[t] # th[t]) => writeBlock' \subseteq writeBlock]_vars

\* C35 (as stated): for an ML index the write block comes after the increment,
\* the check of the nodes and the acknowledged enabled=true call; when the
\* check or the call fails the block is not applied and processNextStep
\* leaves the record failed at lastCompletedStep created.
C35_BlockOnlyAfterUpgradeMode ==
  /\ BlockedAfterUpgradeMode
  /\ [][\A t \in Threads :
          EndsAfterMlSetFailure(t)
          => /\ store'[th[t].arg.id] # NoOp
             /\ store'[th[t].arg.id].status = "failed"
             /\ store'[th[t].arg.id].lastCompletedStep = "created"]_vars

\* C35 (amended): the same order; when the check or the call fails the block
\* is not applied, and the record is left failed at created when the store
\* accepts the writes of the call: when another caller wrote the record since
\* the lease was taken, processNextStep rejects and leaves the store alone.
C35_BlockOnlyAfterUpgradeModeUnlessStale ==
  /\ BlockedAfterUpgradeMode
  /\ [][\A t \in Threads :
          EndsAfterMlSetFailure(t)
          => LET id == th[t].arg.id
             IN  IF store[id] # NoOp /\ store[id].version = th[t].op.version
                 THEN /\ th'[t].ret.kind = "resolved"
                      /\ store'[id] = th'[t].ret.op
                      /\ store'[id].status = "failed"
                      /\ store'[id].lastCompletedStep = "created"
                 ELSE /\ th'[t].ret.kind = "rejected"
                      /\ store' = store]_vars

\* An ML operation whose enabled=true call failed was left failed at created,
\* its index without write block.
C35_Witness ==
  \E t \in Threads :
    /\ th[t].pc = "done"
    /\ SetsMlUpgradeMode(t)
    /\ th[t].trail.error \in MlSetFailures
    /\ th[t].ret.kind = "resolved"
    /\ store[th[t].arg.id] = th[t].ret.op
    /\ th[t].ret.op.status = "failed"
    /\ th[t].ret.op.lastCompletedStep = "created"
    /\ th[t].arg.indexName \notin writeBlock

\* Thread t runs processNextStep on the record of an index that is not an ML
\* index, at one of the two ML steps.
SkipsMlStep(t) ==
  /\ th[t].call = "process"
  /\ th[t].arg # NoOp
  /\ ~isMlIndex(th[t].arg.indexName)
  /\ th[t].arg.lastCompletedStep \in {"created", "aliasCreated"}

\* C36: for an index that is not an ML index, the steps created ->
\* mlUpgradeModeSet and aliasCreated -> mlUpgradeModeUnset go from the switch
\* straight to their updateReindexOp, which advances lastCompletedStep by one
\* (and, from aliasCreated, sets status completed) and changes nothing else
\* of the record but its lease and version; the call makes no cluster
\* request, leaves mlReindexCount alone and does not take the lease of the ML
\* record.
C36_NonMlStepsOnlyAdvance ==
  /\ [][\A t \in Threads :
          (SkipsMlStep(t) /\ th'[t] # th[t])
          => /\ UNCHANGED <<clusterVars, mlDoc, ghostVars>>
             /\ th[t].pc = "step" => th'[t].pc = "update"]_vars
  /\ [][\A t \in Threads :
          (SkipsMlStep(t) /\ th[t].pc = "update" /\ th'[t] # th[t]
             /\ store' # store)
          => LET id == th[t].arg.id
                 step == th[t].arg.lastCompletedStep
             IN  store' = [store EXCEPT ![id] =
                   [@ EXCEPT !.version = @ + 1,
                             !.locked = Format(now),
                             !.lastCompletedStep = Successor(step),
                             !.status = IF step = "aliasCreated"
                                        THEN "completed" ELSE @]]]_vars

\* A processNextStep took the record of an index that is not an ML index from
\* aliasCreated to mlUpgradeModeUnset and completed it.
C36_Witness ==
  \E t \in Threads :
    /\ th[t].pc = "done"
    /\ SkipsMlStep(t)
    /\ th[t].arg.lastCompletedStep = "aliasCreated"
    /\ th[t].arg.status = "inProgress"
    /\ th[t].ret.kind = "resolved"
    /\ th[t].ret.op.lastCompletedStep = "mlUpgradeModeUnset"
    /\ th[t].ret.op.status = "completed"
    /\ store[th[t].ret.op.id] = th[t].ret.op

\* The reindex task of record op was reported completed with every document
\* created, and its record in .tasks was deleted.
TaskDone(op) ==
  /\ op.reindexTaskId \in DOMAIN tasks
  /\ tasks[op.reindexTaskId].state = "deleted"
  /\ tasks[op.reindexTaskId].created >= TaskTotal

\* Step s is reindexCompleted or a later one.
PastReindex(s) == StepNum(s) >= StepNum("reindexCompleted")

\* C37: the alias update that removes the source index is requested only for
\* a record whose reindex task was reported completed with created >= total
\* and whose task record was deleted; no record, stored or in a caller's
\* hands, is at reindexCompleted or beyond while its task is still running,
\* fell short or is not deleted.
C37_AliasSwitchOnlyAfterTaskDone ==
  /\ [][\A t \in Threads :
          (AtStep(t, "reindexCompleted") /\ th'[t] # th[t]) => TaskDone(th[t].op)]_vars
  /\ [][aliased' # aliased =>
          \E t \in Threads : AtStep(t, "reindexCompleted") /\ TaskDone(th[t].op)]_vars
  /\ [](\A id \in Stored : PastReindex(store[id].lastCompletedStep) => TaskDone(store[id]))
  /\ [](\A t \in Threads :
          (th[t].call = "process" /\ th[t].op # NoOp
           /\ PastReindex(th[t].op.lastCompletedStep)) => TaskDone(th[t].op))

\* A processNextStep on a record at reindexCompleted, its task completed in
\* full and deleted, switched the alias and stored aliasCreated.
C37_Witness ==
  \E t \in Threads :
    /\ Succeeded(t)
    /\ th[t].arg.lastCompletedStep = "reindexCompleted"
    /\ th[t].ret.op.lastCompletedStep = "aliasCreated"
    /\ th[t].arg.indexName \in aliased
    /\ TaskDone(th[t].arg)
    /\ store[th[t].arg.id].lastCompletedStep = "aliasCreated"

\* Caller t's processNextStep took the lease of a record, lost it to another
\* caller that moved the record on, and had its own write from the stale copy
\* turned down.
StaleWriteRejected(t) ==
  /\ th[t].pc = "done"
  /\ th[t].call = "process"
  /\ th[t].arg # NoOp
  /\ th[t].trail.acquired
  /\ th[t].ret.kind = "rejected"
  /\ store[th[t].arg.id] # NoOp
  /\ StepNum(store[th[t].arg.id].lastCompletedStep)
       > StepNum(th[t].arg.lastCompletedStep)

\* C38: the lastCompletedStep of a stored record never moves to an earlier
\* step, whichever caller writes and however stale its copy is, and a deleted
\* record does not come back under its id.
C38_StepNeverMovesBack ==
  [][\A id \in OpIds :
       /\ (store[id] # NoOp /\ store'[id] # NoOp)
           => StepNum(store'[id].lastCompletedStep)
                >= StepNum(store[id].lastCompletedStep)
       /\ (store[id] = NoOp /\ store'[id] # NoOp) => id = nextId]_vars

\* A caller whose lease was taken over wrote from its stale copy and was
\* turned down; the record is stored at the later step the other caller gave
\* it.
C38_Witness == \E t \in Threads : StaleWriteRejected(t)

\* The startUpdateOperationLoop calls of the worker that have not returned.
ActiveLoops == {l \in Loops : wk.loops[l].pc # "none"}

\* The processNextStep calls of the worker's loops that have not settled.
ActiveCalls == {t \in Threads : wk.calls[t] # 0 /\ th[t].pc # "done"}

\* C39: within one worker at most one startUpdateOperationLoop is active at
\* any time, whatever the sequence of start, stop, forceRefresh and poll
\* ticks, and so no two processNextStep calls of the worker run at the same
\* time on the same record.
C39_OneLoopAtATime ==
  /\ Cardinality(ActiveLoops) <= 1
  /\ \A t, u \in ActiveCalls : th[t].arg.id = th[u].arg.id => t = u

\* The stored ML operations, other than that of indexName, that are in
\* progress with their indices in upgrade mode: lastCompletedStep from
\* mlUpgradeModeSet to reindexCompleted.
OtherMlOperationsInFlight(indexName) ==
  {id \in Stored :
     /\ isMlIndex(store[id].indexName)
     /\ store[id].indexName # indexName
     /\ store[id].status = "inProgress"
     /\ StepNum(store[id].lastCompletedStep) >= StepNum("mlUpgradeModeSet")
     /\ StepNum(store[id].lastCompletedStep) <= StepNum("reindexCompleted")}

\* Caller t issues POST /_ml/set_upgrade_mode?enabled=false in this step.
DisablesUpgradeMode(t) ==
  /\ RunsMlCallback(t, "aliasCreated")
  /\ Len(mlCalls') = Len(mlCalls) + 1
  /\ ~mlCalls'[Len(mlCalls')].enabled

\* C40: the ML endpoint is never called with enabled=false while another ML
\* operation is in progress with lastCompletedStep between mlUpgradeModeSet
\* and reindexCompleted.
C40_NoDisableWhileAnotherInFlight ==
  [][\A t \in Threads :
       DisablesUpgradeMode(t)
       => OtherMlOperationsInFlight(th[t].op.indexName) = {}]_vars

====
